---- MODULE Spec2Model ----
(***************************************************************************)
(* Job-matching engine of the CV-analyzer backend (jobMatchingService):    *)
(* calculateJobMatchScore and the six matchers it runs, and getMatchedJobs *)
(* over the in-memory job store (JobStore); the store's refresh by         *)
(* scrapeJobsFromLinkedIn; and the in-memory mode of the authentication    *)
(* service (authService).                                                  *)
(*                                                                         *)
(* A JavaScript string is a sequence of one-character strings, so that     *)
(* toLowerCase and includes are computed character by character.  An       *)
(* object is a record; a property the object does not have is a field      *)
(* outside the record's DOMAIN.  Numbers with a fractional part (the       *)
(* skills score) are exact fractions num/den.                              *)
(***************************************************************************)
EXTENDS Integers, Sequences, FiniteSets, TLC

VARIABLES
  profile,   \* the userProfile the caller holds
  posting,   \* the job the caller holds
  call,      \* the function called last
  result,    \* what it returned
  jobs,      \* jobStore.jobs: the Map's values in insertion order
  seenUrls,  \* jobStore.seenUrls
  options,   \* the options argument of the call ({} for a call without one)
  memo,      \* history: an earlier calculateJobMatchScore call and its result
  users,     \* memoryStore.users: email -> the id of the user object
  usersById, \* memoryStore.usersById: userId -> user object
  sessions,  \* memoryStore.sessions: sessionId -> userId
  clock,     \* Date.now(), in ticks
  scrapes    \* the scrapeJobsFromLinkedIn invocations: position and locals

vars == <<profile, posting, call, result, jobs, seenUrls, options, memo,
          users, usersById, sessions, clock, scrapes>>

\* The variables of the authentication service.
authVars == <<users, usersById, sessions, clock>>

\* new InMemoryUserStore(), and no scrape invoked.
servicesIdle ==
  /\ users = <<>>
  /\ usersById = <<>>
  /\ sessions = <<>>
  /\ clock = 0
  /\ scrapes = <<>>

(***************************************************************************)
(* JavaScript primitives                                                   *)
(***************************************************************************)

\* String.prototype.toLowerCase on the letters A-Z; other characters stay.
lowerOf ==
  [c \in {"A","B","C","D","E","F","G","H","I","J","K","L","M",
          "N","O","P","Q","R","S","T","U","V","W","X","Y","Z"} |->
     CASE c = "A" -> "a" [] c = "B" -> "b" [] c = "C" -> "c" [] c = "D" -> "d"
       [] c = "E" -> "e" [] c = "F" -> "f" [] c = "G" -> "g" [] c = "H" -> "h"
       [] c = "I" -> "i" [] c = "J" -> "j" [] c = "K" -> "k" [] c = "L" -> "l"
       [] c = "M" -> "m" [] c = "N" -> "n" [] c = "O" -> "o" [] c = "P" -> "p"
       [] c = "Q" -> "q" [] c = "R" -> "r" [] c = "S" -> "s" [] c = "T" -> "t"
       [] c = "U" -> "u" [] c = "V" -> "v" [] c = "W" -> "w" [] c = "X" -> "x"
       [] c = "Y" -> "y" [] c = "Z" -> "z"]

toLowerCase(s) ==
  [i \in 1..Len(s) |-> IF s[i] \in DOMAIN lowerOf THEN lowerOf[s[i]] ELSE s[i]]

\* String.prototype.includes: t occurs in s at some position ('' always does).
includes(s, t) ==
  \E i \in 1..(Len(s) - Len(t) + 1) : \A k \in 1..Len(t) : s[i + k - 1] = t[k]

\* Array.prototype.includes on an array of strings.
arrayIncludes(arr, x) == \E i \in DOMAIN arr : arr[i] = x

\* Array.prototype.map(s => s.toLowerCase()).
mapLower(arr) == [i \in DOMAIN arr |-> toLowerCase(arr[i])]

\* Array.prototype.filter: the elements that satisfy keep, in order.
RECURSIVE filterIncluded(_, _)
filterIncluded(arr, text) ==
  IF arr = <<>> THEN <<>>
  ELSE LET rest == filterIncluded(Tail(arr), text)
       IN  IF includes(text, toLowerCase(Head(arr))) THEN <<Head(arr)>> \o rest ELSE rest

\* Array.prototype.join(sep).
RECURSIVE join(_, _)
join(arr, sep) ==
  IF arr = <<>> THEN <<>>
  ELSE IF Len(arr) = 1 THEN arr[1]
  ELSE arr[1] \o sep \o join(Tail(arr), sep)

\* A number in a template string: its decimal digits.
digits == <<"0","1","2","3","4","5","6","7","8","9">>

RECURSIVE numberToString(_)
numberToString(n) ==
  IF n < 10 THEN <<digits[n + 1]>>
  ELSE numberToString(n \div 10) \o <<digits[(n % 10) + 1]>>

\* obj.field, with dflt standing for what the code substitutes when the
\* property is undefined (x || dflt, x?.f() || dflt).
has(obj, field) == field \in DOMAIN obj

orElse(obj, field, dflt) == IF has(obj, field) THEN obj[field] ELSE dflt

\* A template string: the literal text with ${} holes, and the values put in.
template(fmt, args) == [fmt |-> fmt, args |-> args]

emptyString == template("", <<>>)

\* JavaScript truthiness of an optional string property of a matcher result.
truthy(obj, field) == has(obj, field) /\ obj[field] # emptyString

null == <<"null">>

undefined == <<"undefined">>

(***************************************************************************)
(* calculateJobCategoryMatch                                               *)
(***************************************************************************)

categoryGroups == <<
  [category |-> <<"t","e","c","h">>, keywords |-> <<
     <<"f","r","o","n","t","e","n","d">>, <<"b","a","c","k","e","n","d">>, <<"f","u","l","l"," ","s","t","a","c","k">>, <<"f","u","l","l","s","t","a","c","k">>, <<"s","o","f","t","w","a","r","e">>,
     <<"d","e","v","e","l","o","p","e","r">>, <<"e","n","g","i","n","e","e","r">>, <<"d","e","v","o","p","s">>, <<"m","o","b","i","l","e">>, <<"i","o","s">>, <<"a","n","d","r","o","i","d">>,
     <<"r","e","a","c","t">>, <<"n","o","d","e">>, <<"p","y","t","h","o","n">>, <<"j","a","v","a">>, <<"w","e","b">>, <<"d","a","t","a"," ","s","c","i","e","n","t","i","s","t">>,
     <<"d","a","t","a"," ","a","n","a","l","y","s","t">>, <<"q","a">>, <<"q","u","a","l","i","t","y">>>>],
  [category |-> <<"d","e","s","i","g","n">>, keywords |-> <<
     <<"d","e","s","i","g","n","e","r">>, <<"u","x">>, <<"u","i">>, <<"g","r","a","p","h","i","c">>, <<"c","r","e","a","t","i","v","e">>, <<"i","l","l","u","s","t","r","a","t","o","r">>,
     <<"m","o","t","i","o","n">>>>],
  [category |-> <<"f","i","n","a","n","c","e">>, keywords |-> <<
     <<"a","c","c","o","u","n","t","a","n","t">>, <<"f","i","n","a","n","c","e">>, <<"f","i","n","a","n","c","i","a","l">>, <<"a","u","d","i","t">>, <<"p","a","y","r","o","l","l">>, <<"t","a","x">>,
     <<"b","o","o","k","k","e","e","p","e","r">>, <<"c","o","n","t","r","o","l","l","e","r">>>>],
  [category |-> <<"h","r">>, keywords |-> <<
     <<"h","r">>, <<"h","u","m","a","n"," ","r","e","s","o","u","r","c","e">>, <<"r","e","c","r","u","i","t","e","r">>, <<"r","e","c","r","u","i","t","m","e","n","t">>,
     <<"t","a","l","e","n","t"," ","a","c","q","u","i","s","i","t","i","o","n">>, <<"t","a","l","e","n","t">>>>],
  [category |-> <<"m","a","r","k","e","t","i","n","g">>, keywords |-> <<
     <<"m","a","r","k","e","t","i","n","g">>, <<"s","e","o">>, <<"p","p","c">>, <<"s","o","c","i","a","l"," ","m","e","d","i","a">>, <<"c","o","n","t","e","n","t"," ","m","a","r","k","e","t","i","n","g">>,
     <<"g","r","o","w","t","h">>>>],
  [category |-> <<"s","a","l","e","s">>, keywords |-> <<
     <<"s","a","l","e","s">>, <<"a","c","c","o","u","n","t"," ","m","a","n","a","g","e","r">>, <<"b","u","s","i","n","e","s","s"," ","d","e","v","e","l","o","p","m","e","n","t">>, <<"b","d">>>>],
  [category |-> <<"s","u","p","p","o","r","t">>, keywords |-> <<
     <<"c","u","s","t","o","m","e","r"," ","s","u","p","p","o","r","t">>, <<"c","u","s","t","o","m","e","r"," ","s","e","r","v","i","c","e">>, <<"h","e","l","p"," ","d","e","s","k">>,
     <<"t","e","c","h","n","i","c","a","l"," ","s","u","p","p","o","r","t">>, <<"v","i","r","t","u","a","l"," ","a","s","s","i","s","t","a","n","t">>>>],
  [category |-> <<"m","a","n","a","g","e","m","e","n","t">>, keywords |-> <<
     <<"p","r","o","j","e","c","t"," ","m","a","n","a","g","e","r">>, <<"p","r","o","d","u","c","t"," ","m","a","n","a","g","e","r">>, <<"s","c","r","u","m"," ","m","a","s","t","e","r">>, <<"t","e","a","m"," ","l","e","a","d">>,
     <<"o","p","e","r","a","t","i","o","n","s"," ","m","a","n","a","g","e","r">>, <<"b","u","s","i","n","e","s","s"," ","a","n","a","l","y","s","t">>>>] >>

compatibleCategories == <<
  [category |-> <<"t","e","c","h">>,       compatible |-> <<<<"t","e","c","h">>, <<"d","e","s","i","g","n">>, <<"m","a","n","a","g","e","m","e","n","t">>>>],
  [category |-> <<"d","e","s","i","g","n">>,     compatible |-> <<<<"d","e","s","i","g","n">>, <<"t","e","c","h">>, <<"m","a","r","k","e","t","i","n","g">>>>],
  [category |-> <<"f","i","n","a","n","c","e">>,    compatible |-> <<<<"f","i","n","a","n","c","e">>>>],
  [category |-> <<"h","r">>,         compatible |-> <<<<"h","r">>>>],
  [category |-> <<"m","a","r","k","e","t","i","n","g">>,  compatible |-> <<<<"m","a","r","k","e","t","i","n","g">>, <<"d","e","s","i","g","n">>, <<"s","a","l","e","s">>>>],
  [category |-> <<"s","a","l","e","s">>,      compatible |-> <<<<"s","a","l","e","s">>, <<"m","a","r","k","e","t","i","n","g">>>>],
  [category |-> <<"s","u","p","p","o","r","t">>,    compatible |-> <<<<"s","u","p","p","o","r","t">>>>],
  [category |-> <<"m","a","n","a","g","e","m","e","n","t">>, compatible |-> <<<<"m","a","n","a","g","e","m","e","n","t">>, <<"t","e","c","h">>>>] >>

\* keywords.some(kw => texts.some(t => t.includes(kw)))
someKeywordIn(keywords, texts) ==
  \E k \in DOMAIN keywords : \E t \in DOMAIN texts : includes(texts[t], keywords[k])

\* for (const [category, keywords] of Object.entries(categoryGroups)) { ... break; }
\* from group g on: the first group with a keyword in one of the texts, else null.
RECURSIVE firstCategoryFrom(_, _)
firstCategoryFrom(g, texts) ==
  IF g > Len(categoryGroups) THEN null
  ELSE IF someKeywordIn(categoryGroups[g].keywords, texts)
       THEN categoryGroups[g].category
       ELSE firstCategoryFrom(g + 1, texts)

\* compatibleCategories[userCategory] || [userCategory]
compatibleWith_everyRow(userCategory) ==
  LET rows == {i \in DOMAIN compatibleCategories :
                 compatibleCategories[i].category = userCategory}
  IN  IF rows = {} THEN <<userCategory>>
      ELSE compatibleCategories[CHOOSE i \in rows : TRUE].compatible \o <<<<"t","e","c","h">>>>

compatibleWith(userCategory) ==
  LET rows == {i \in DOMAIN compatibleCategories :
                 compatibleCategories[i].category = userCategory}
  IN  IF rows = {} THEN <<userCategory>>
      ELSE compatibleCategories[CHOOSE i \in rows : TRUE].compatible

\* "Determine user's desired category": desiredPosition and every job type.
userCategoryOf(userProfile) ==
  LET desiredPosition == toLowerCase(orElse(userProfile, "desiredPosition", <<>>))
      jobTypes        == mapLower(orElse(userProfile, "jobTypes", <<>>))
  IN  firstCategoryFrom(1, <<desiredPosition>> \o jobTypes)

\* "Determine job's category": title, type and category field.
jobCategoryOf(job) ==
  LET jobTitle    == toLowerCase(job.title)
      jobType     == toLowerCase(job.type)
      jobCategory == toLowerCase(orElse(job, "category", <<>>))
  IN  firstCategoryFrom(1, <<jobTitle, jobType, jobCategory>>)

calculateJobCategoryMatch(userProfile, job) ==
  LET userCategory     == userCategoryOf(userProfile)
      jobCategoryGroup == jobCategoryOf(job)
  IN  IF userCategory = null \/ jobCategoryGroup = null
      THEN [score |-> 10, match |-> TRUE, reason |-> emptyString]
      ELSE IF arrayIncludes(compatibleWith(userCategory), jobCategoryGroup)
      THEN IF userCategory = jobCategoryGroup
           THEN [score |-> 20, match |-> TRUE,
                 reason |-> template("${} position matches your career path", <<job.type>>)]
           ELSE [score |-> 10, match |-> TRUE,
                 reason |-> template("Related field: ${}", <<job.type>>)]
      ELSE [score |-> 0, match |-> FALSE,
            issue |-> template("Job category (${}) doesn't match your desired field (${})",
                               <<jobCategoryGroup, userCategory>>)]

(***************************************************************************)
(* calculateLocationMatch                                                  *)
(***************************************************************************)

\* job.isRemote === true
isRemoteFlag(job) == has(job, "isRemote") /\ job.isRemote = TRUE

\* jobLocation.includes('remote') || jobLocation.includes('hybrid') ||
\* job.isRemote === true || job.description?.toLowerCase().includes('remote')
isRemoteJob(job) ==
  LET jobLocation == toLowerCase(job.location)
  IN  \/ includes(jobLocation, <<"r","e","m","o","t","e">>)
      \/ includes(jobLocation, <<"h","y","b","r","i","d">>)
      \/ isRemoteFlag(job)
      \/ (has(job, "description") /\ includes(toLowerCase(job.description), <<"r","e","m","o","t","e">>))

\* preferredLocations.some(loc => jobLocation.includes(loc))
locationInPreferred_exact(userProfile, job) ==
  LET jobLocation        == toLowerCase(job.location)
      preferredLocations == mapLower(orElse(userProfile, "preferredLocations", <<>>))
  IN  \E i \in DOMAIN preferredLocations : jobLocation = preferredLocations[i]

locationInPreferred(userProfile, job) ==
  LET jobLocation        == toLowerCase(job.location)
      preferredLocations == mapLower(orElse(userProfile, "preferredLocations", <<>>))
  IN  \E i \in DOMAIN preferredLocations : includes(jobLocation, preferredLocations[i])

\* "If user prefers only remote and job is not remote", and the job location
\* is not in the preferred locations either.
remoteOnlyRejected_unlessRelocating(userProfile, job) ==
  /\ orElse(userProfile, "remotePreference", undefined) = <<"r","e","m","o","t","e">>
  /\ ~isRemoteJob(job)
  /\ ~locationInPreferred(userProfile, job)
  /\ ~(has(userProfile, "willingToRelocate") /\ userProfile.willingToRelocate)

remoteOnlyRejected(userProfile, job) ==
  /\ orElse(userProfile, "remotePreference", undefined) = <<"r","e","m","o","t","e">>
  /\ ~isRemoteJob(job)
  /\ ~locationInPreferred(userProfile, job)

calculateLocationMatch(userProfile, job) ==
  LET jobLocation        == toLowerCase(job.location)
      preferredLocations == mapLower(orElse(userProfile, "preferredLocations", <<>>))
      remotePreference   == orElse(userProfile, "remotePreference", undefined)
  IN  IF remoteOnlyRejected(userProfile, job)
      THEN [score |-> 0, match |-> FALSE,
            issue |-> template("Job requires on-site presence in ${}, but you prefer remote work",
                               <<job.location>>)]
      ELSE IF remotePreference = <<"o","n","s","i","t","e">> /\ isRemoteJob(job)
              /\ ~includes(jobLocation, <<"h","y","b","r","i","d">>)
      THEN [score |-> 10, match |-> FALSE,
            reason |-> template("Remote position (you prefer on-site)", <<>>)]
      ELSE IF isRemoteJob(job) /\ (\/ remotePreference = <<"r","e","m","o","t","e">>
                                   \/ remotePreference = <<"f","l","e","x","i","b","l","e">>
                                   \/ remotePreference = <<"h","y","b","r","i","d">>)
      THEN [score |-> 25, match |-> TRUE,
            reason |-> template("Remote position matching your ${} preference",
                                <<remotePreference>>)]
      ELSE IF locationInPreferred(userProfile, job)
      THEN [score |-> 25, match |-> TRUE,
            reason |-> template("Location ${} is in your preferred areas", <<job.location>>)]
      ELSE IF /\ has(userProfile, "currentLocation")
              /\ userProfile.currentLocation # <<>>
              /\ includes(jobLocation, toLowerCase(userProfile.currentLocation))
      THEN [score |-> 20, match |-> TRUE,
            reason |-> template("Job is in your current city (${})",
                                <<userProfile.currentLocation>>)]
      ELSE IF has(userProfile, "willingToRelocate") /\ userProfile.willingToRelocate
      THEN [score |-> 15, match |-> TRUE,
            reason |-> template("(!) Outside preferred locations, but you're open to relocation",
                                <<>>)]
      ELSE [score |-> 0, match |-> FALSE,
            issue |-> template("Job location ${} doesn't match your preferences (${})",
                               <<job.location, join(preferredLocations, <<","," ">>)>>)]

(***************************************************************************)
(* calculateRemoteMatch                                                    *)
(***************************************************************************)

\* The remote test of calculateRemoteMatch: the same four disjuncts, with
\* job.description?.toLowerCase() || '' in place of the optional chain.
isRemoteJobForRemoteMatch_noFlag(job) ==
  LET jobLocation    == toLowerCase(job.location)
      jobDescription == toLowerCase(orElse(job, "description", <<>>))
  IN  \/ includes(jobLocation, <<"r","e","m","o","t","e">>)
      \/ includes(jobLocation, <<"h","y","b","r","i","d">>)
      \/ includes(jobDescription, <<"r","e","m","o","t","e">>)

isRemoteJobForRemoteMatch(job) ==
  LET jobLocation    == toLowerCase(job.location)
      jobDescription == toLowerCase(orElse(job, "description", <<>>))
  IN  \/ includes(jobLocation, <<"r","e","m","o","t","e">>)
      \/ includes(jobLocation, <<"h","y","b","r","i","d">>)
      \/ includes(jobDescription, <<"r","e","m","o","t","e">>)
      \/ isRemoteFlag(job)

isHybridJob(job) ==
  LET jobLocation    == toLowerCase(job.location)
      jobDescription == toLowerCase(orElse(job, "description", <<>>))
  IN  includes(jobLocation, <<"h","y","b","r","i","d">>) \/ includes(jobDescription, <<"h","y","b","r","i","d">>)

calculateRemoteMatch(userProfile, job) ==
  LET remotePreference == orElse(userProfile, "remotePreference", undefined)
      isRemote         == isRemoteJobForRemoteMatch(job)
  IN  IF remotePreference = <<"r","e","m","o","t","e">> /\ isRemote
      THEN [score |-> 20, match |-> TRUE, reason |-> template("(house) Fully remote position", <<>>)]
      ELSE IF remotePreference = <<"h","y","b","r","i","d">> /\ (isHybridJob(job) \/ isRemote)
      THEN [score |-> 20, match |-> TRUE,
            reason |-> template("(cycle) Hybrid/flexible work arrangement", <<>>)]
      ELSE IF remotePreference = <<"f","l","e","x","i","b","l","e">>
      THEN [score |-> 15, match |-> TRUE,
            reason |-> template("(sparkles) Flexible with work arrangement", <<>>)]
      ELSE IF remotePreference = <<"o","n","s","i","t","e">> /\ ~isRemote
      THEN [score |-> 20, match |-> TRUE,
            reason |-> template("(office) On-site position as preferred", <<>>)]
      ELSE [score |-> 10, match |-> FALSE]

(***************************************************************************)
(* Numbers: a score is the exact fraction num/den, den >= 1                *)
(***************************************************************************)

number(n) == [num |-> n, den |-> 1]

\* a + b
plus(a, b) == [num |-> a.num * b.den + b.num * a.den, den |-> a.den * b.den]

\* a >= b
atLeast(a, b) == a.num * b.den >= b.num * a.den

\* Math.min(a, b)
mathMin_second(a, b) == b

mathMin(a, b) == IF atLeast(b, a) THEN a ELSE b

\* Math.round: the nearest integer, a half rounding up.
mathRound_floor(a) == a.num \div a.den

mathRound(a) == (2 * a.num + a.den) \div (2 * a.den)

(***************************************************************************)
(* calculateSkillsMatch                                                    *)
(***************************************************************************)

\* `${jobTitle} ${jobDescription}`
jobTextOf(job) ==
  toLowerCase(job.title) \o <<" ">> \o toLowerCase(orElse(job, "description", <<>>))

\* (matchedSkills.length / userSkills.length) * 100, or 0 without skills,
\* then Math.min(25, (matchPercentage / 100) * 25)
skillsScoreOf_unguarded(matched, total) ==
  mathMin(number(25), [num |-> matched * 100 * 25, den |-> total * 100])

skillsScoreOf(matched, total) ==
  LET matchPercentage == IF total > 0 THEN [num |-> matched * 100, den |-> total]
                         ELSE number(0)
  IN  mathMin(number(25), [num |-> matchPercentage.num * 25, den |-> matchPercentage.den * 100])

calculateSkillsMatch_primaryMatchedOnly(userProfile, job) ==
  LET primarySkills  == orElse(userProfile, "primarySkills", <<>>)
      userSkills     == mapLower(primarySkills \o orElse(userProfile, "secondarySkills", <<>>))
      jobText        == jobTextOf(job)
      matchedSkills  == filterIncluded(mapLower(primarySkills), jobText)
  IN  [score         |-> skillsScoreOf(Len(matchedSkills), Len(userSkills)),
       reasons       |-> <<>>,
       matchedSkills |-> matchedSkills]

calculateSkillsMatch(userProfile, job) ==
  LET primarySkills  == orElse(userProfile, "primarySkills", <<>>)
      userSkills     == mapLower(primarySkills \o orElse(userProfile, "secondarySkills", <<>>))
      jobText        == jobTextOf(job)
      matchedSkills  == filterIncluded(userSkills, jobText)
      primaryMatched == filterIncluded(primarySkills, jobText)
      secondaryMatched == Len(matchedSkills) - Len(primaryMatched)
      primaryReason  ==
        IF Len(primaryMatched) > 0
        THEN << template("${} of your primary skills match: ${}",
                         << numberToString(Len(primaryMatched)),
                            join(SubSeq(primaryMatched, 1,
                                        IF Len(primaryMatched) < 3 THEN Len(primaryMatched) ELSE 3),
                                 <<","," ">>) >>) >>
        ELSE <<>>
      secondaryReason ==
        IF Len(matchedSkills) > Len(primaryMatched)
        THEN << template("${} additional skills match", <<numberToString(secondaryMatched)>>) >>
        ELSE <<>>
  IN  [score         |-> skillsScoreOf(Len(matchedSkills), Len(userSkills)),
       reasons       |-> primaryReason \o secondaryReason,
       matchedSkills |-> matchedSkills]

(***************************************************************************)
(* calculateExperienceMatch                                                *)
(***************************************************************************)

levelMap == <<
  [jobLevel |-> <<"I","n","t","e","r","n","s","h","i","p">>, levels |-> <<<<"j","u","n","i","o","r">>>>],
  [jobLevel |-> <<"J","u","n","i","o","r">>,     levels |-> <<<<"j","u","n","i","o","r">>, <<"m","i","d">>>>],
  [jobLevel |-> <<"M","i","d">>,        levels |-> <<<<"j","u","n","i","o","r">>, <<"m","i","d">>, <<"s","e","n","i","o","r">>>>],
  [jobLevel |-> <<"S","e","n","i","o","r">>,     levels |-> <<<<"m","i","d">>, <<"s","e","n","i","o","r">>, <<"l","e","a","d">>>>],
  [jobLevel |-> <<"L","e","a","d">>,       levels |-> <<<<"s","e","n","i","o","r">>, <<"l","e","a","d">>>>] >>

\* levelMap[jobLevel] || ['mid', 'senior']
acceptableLevelsFor_noDefault(jobLevel) ==
  LET rows == {i \in DOMAIN levelMap : levelMap[i].jobLevel = jobLevel}
  IN  IF rows = {} THEN <<>>
      ELSE levelMap[CHOOSE i \in rows : TRUE].levels

acceptableLevelsFor(jobLevel) ==
  LET rows == {i \in DOMAIN levelMap : levelMap[i].jobLevel = jobLevel}
  IN  IF rows = {} THEN <<<<"m","i","d">>, <<"s","e","n","i","o","r">>>>
      ELSE levelMap[CHOOSE i \in rows : TRUE].levels

calculateExperienceMatch(userProfile, job) ==
  LET userLevel == orElse(userProfile, "experienceLevel", undefined)
      jobLevel  == orElse(job, "experienceLevel", undefined)
  IN  IF arrayIncludes(acceptableLevelsFor(jobLevel), userLevel)
      THEN [score |-> 15, match |-> TRUE,
            reason |-> template("Experience level matches (${} position, you're ${})",
                                <<jobLevel, userLevel>>)]
      ELSE IF userLevel = <<"s","e","n","i","o","r">> /\ jobLevel = <<"J","u","n","i","o","r">>
      THEN [score |-> 5, match |-> FALSE,
            reason |-> template("(!) You may be overqualified for this ${} position",
                                <<jobLevel>>)]
      ELSE IF userLevel = <<"j","u","n","i","o","r">> /\ jobLevel = <<"S","e","n","i","o","r">>
      THEN [score |-> 5, match |-> FALSE,
            reason |-> template("(!) This ${} position may require more experience",
                                <<jobLevel>>)]
      ELSE [score |-> 10, match |-> TRUE, reason |-> emptyString]

(***************************************************************************)
(* calculateJobTypeMatch                                                   *)
(***************************************************************************)

calculateJobTypeMatch_oneWay(userProfile, job) ==
  LET userJobTypes == mapLower(orElse(userProfile, "jobTypes", <<>>))
      jobType      == toLowerCase(job.type)
  IN  IF \E i \in DOMAIN userJobTypes : includes(jobType, userJobTypes[i])
      THEN [score |-> 10, match |-> TRUE,
            reason |-> template("${} matches your interests", <<job.type>>)]
      ELSE IF arrayIncludes(userJobTypes, <<"f","u","l","l"," ","s","t","a","c","k">>)
              /\ (includes(jobType, <<"f","r","o","n","t","e","n","d">>) \/ includes(jobType, <<"b","a","c","k","e","n","d">>))
      THEN [score |-> 8, match |-> TRUE,
            reason |-> template("${} position (you're Full Stack)", <<job.type>>)]
      ELSE [score |-> 5, match |-> FALSE]

calculateJobTypeMatch_noBaseline(userProfile, job) ==
  LET userJobTypes == mapLower(orElse(userProfile, "jobTypes", <<>>))
      jobType      == toLowerCase(job.type)
  IN  IF \E i \in DOMAIN userJobTypes :
           includes(jobType, userJobTypes[i]) \/ includes(userJobTypes[i], jobType)
      THEN [score |-> 10, match |-> TRUE,
            reason |-> template("${} matches your interests", <<job.type>>)]
      ELSE IF arrayIncludes(userJobTypes, <<"f","u","l","l"," ","s","t","a","c","k">>)
              /\ (includes(jobType, <<"f","r","o","n","t","e","n","d">>) \/ includes(jobType, <<"b","a","c","k","e","n","d">>))
      THEN [score |-> 8, match |-> TRUE,
            reason |-> template("${} position (you're Full Stack)", <<job.type>>)]
      ELSE [score |-> 0, match |-> FALSE]

calculateJobTypeMatch(userProfile, job) ==
  LET userJobTypes == mapLower(orElse(userProfile, "jobTypes", <<>>))
      jobType      == toLowerCase(job.type)
  IN  IF \E i \in DOMAIN userJobTypes :
           includes(jobType, userJobTypes[i]) \/ includes(userJobTypes[i], jobType)
      THEN [score |-> 10, match |-> TRUE,
            reason |-> template("${} matches your interests", <<job.type>>)]
      ELSE IF arrayIncludes(userJobTypes, <<"f","u","l","l"," ","s","t","a","c","k">>)
              /\ (includes(jobType, <<"f","r","o","n","t","e","n","d">>) \/ includes(jobType, <<"b","a","c","k","e","n","d">>))
      THEN [score |-> 8, match |-> TRUE,
            reason |-> template("${} position (you're Full Stack)", <<job.type>>)]
      ELSE [score |-> 5, match |-> FALSE]

(***************************************************************************)
(* calculateJobMatchScore                                                  *)
(***************************************************************************)

\* reasons.push(x.reason)
pushReason(reasons, matcherResult) ==
  Append(reasons, orElse(matcherResult, "reason", undefined))

\* if (!categoryMatch.match) return ...
categoryHardFilter_never(categoryMatch) == FALSE

categoryHardFilter(categoryMatch) == ~categoryMatch.match

\* the else-if branch of the location step: no match and an issue to report
locationHardFilter_never(locationScore) == FALSE

locationHardFilter_anyMismatch(locationScore) == ~locationScore.match

locationHardFilter(locationScore) ==
  ~locationScore.match /\ truthy(locationScore, "issue")

\* suitable: score >= 40, on the sum before clamping and rounding
suitableFor_above(score) == ~atLeast(number(40), score)

suitableFor_emptyStore(score) == atLeast(score, number(40)) /\ jobs # <<>>

suitableFor(score) == atLeast(score, number(40))

\* issues.push(x.issue)
pushIssue_none(issues, matcherResult) == issues

pushIssue(issues, matcherResult) ==
  Append(issues, orElse(matcherResult, "issue", undefined))

\* The part after the two hard filters: remote, skills, experience, job type.
scoreAfterFilters_experienceFilter(userProfile, job, score, reasons) ==
  LET remoteScore     == calculateRemoteMatch(userProfile, job)
      score2          == plus(score, number(remoteScore.score))
      reasons2        == IF remoteScore.match THEN pushReason(reasons, remoteScore) ELSE reasons
      skillsScore     == calculateSkillsMatch(userProfile, job)
      score3          == plus(score2, skillsScore.score)
      reasons3        == reasons2 \o skillsScore.reasons
      experienceScore == calculateExperienceMatch(userProfile, job)
      score4          == plus(score3, number(experienceScore.score))
      jobTypeScore    == calculateJobTypeMatch(userProfile, job)
      score5          == plus(score4, number(jobTypeScore.score))
      reasons5        == IF jobTypeScore.match THEN pushReason(reasons3, jobTypeScore)
                         ELSE reasons3
  IN  IF ~experienceScore.match
      THEN [score |-> 0, reasons |-> reasons3, issues |-> <<experienceScore.reason>>,
            suitable |-> FALSE]
      ELSE [score    |-> mathRound(mathMin(number(100), score5)),
            reasons  |-> pushReason(reasons5, experienceScore),
            issues   |-> <<>>,
            suitable |-> suitableFor(score5)]

scoreAfterFilters_jobTypeBeforeSkills(userProfile, job, score, reasons) ==
  LET remoteScore     == calculateRemoteMatch(userProfile, job)
      score2          == plus(score, number(remoteScore.score))
      reasons2        == IF remoteScore.match THEN pushReason(reasons, remoteScore) ELSE reasons
      jobTypeScore    == calculateJobTypeMatch(userProfile, job)
      reasons3        == IF jobTypeScore.match THEN pushReason(reasons2, jobTypeScore)
                         ELSE reasons2
      skillsScore     == calculateSkillsMatch(userProfile, job)
      score3          == plus(score2, skillsScore.score)
      reasons4        == reasons3 \o skillsScore.reasons
      experienceScore == calculateExperienceMatch(userProfile, job)
      score4          == plus(score3, number(experienceScore.score))
      reasons5        == IF experienceScore.match THEN pushReason(reasons4, experienceScore)
                         ELSE reasons4
      score5          == plus(score4, number(jobTypeScore.score))
  IN  [score    |-> mathRound(mathMin(number(100), score5)),
       reasons  |-> reasons5,
       issues   |-> <<>>,
       suitable |-> suitableFor(score5)]

scoreAfterFilters(userProfile, job, score, reasons) ==
  LET remoteScore     == calculateRemoteMatch(userProfile, job)
      score2          == plus(score, number(remoteScore.score))
      reasons2        == IF remoteScore.match THEN pushReason(reasons, remoteScore) ELSE reasons
      skillsScore     == calculateSkillsMatch(userProfile, job)
      score3          == plus(score2, skillsScore.score)
      reasons3        == IF Len(skillsScore.reasons) > 0 THEN reasons2 \o skillsScore.reasons
                         ELSE reasons2
      experienceScore == calculateExperienceMatch(userProfile, job)
      score4          == plus(score3, number(experienceScore.score))
      reasons4        == IF experienceScore.match THEN pushReason(reasons3, experienceScore)
                         ELSE reasons3
      jobTypeScore    == calculateJobTypeMatch(userProfile, job)
      score5          == plus(score4, number(jobTypeScore.score))
      reasons5        == IF jobTypeScore.match THEN pushReason(reasons4, jobTypeScore)
                         ELSE reasons4
  IN  [score    |-> mathRound(mathMin(number(100), score5)),
       reasons  |-> reasons5,
       issues   |-> <<>>,
       suitable |-> suitableFor(score5)]

calculateJobMatchScore(userProfile, job) ==
  LET categoryMatch == calculateJobCategoryMatch(userProfile, job)
      score0        == number(categoryMatch.score)
      reasons0      == IF truthy(categoryMatch, "reason") THEN <<categoryMatch.reason>> ELSE <<>>
      locationScore == calculateLocationMatch(userProfile, job)
      score1        == plus(score0, number(locationScore.score))
      reasons1      == IF locationScore.match THEN pushReason(reasons0, locationScore)
                       ELSE reasons0
  IN  IF categoryHardFilter(categoryMatch)
      THEN [score |-> 0, reasons |-> <<>>, issues |-> <<categoryMatch.issue>>,
            suitable |-> FALSE]
      ELSE IF locationHardFilter(locationScore)
      THEN [score |-> 0, reasons |-> reasons1, issues |-> pushIssue(<<>>, locationScore),
            suitable |-> FALSE]
      ELSE scoreAfterFilters(userProfile, job, score1, reasons1)

\* What a call ends with when it dereferences an undefined property
\* (undefined.toLowerCase(), undefined.map(...)).
TypeError == [threw |-> "TypeError"]

\* The properties of the profile that are dereferenced without a guard
\* (|| '', || [], ?.): none.
profileDereferenced_jobTypes == {"jobTypes"}

profileDereferenced == {}

\* job.title.toLowerCase(), job.type.toLowerCase() in the category step
categoryDereferenced == {"title", "type"}

\* job.location.toLowerCase() in the location step
locationDereferenced == {"location"}

\* calculateJobMatchScore as a call: the result, or the TypeError of the
\* first dereference of a property the argument lacks.
tryCalculateJobMatchScore(userProfile, job) ==
  IF ~(profileDereferenced \subseteq DOMAIN userProfile)
     \/ ~(categoryDereferenced \subseteq DOMAIN job)
  THEN TypeError
  ELSE IF categoryHardFilter(calculateJobCategoryMatch(userProfile, job))
  THEN calculateJobMatchScore(userProfile, job)
  ELSE IF ~(locationDereferenced \subseteq DOMAIN job)
  THEN TypeError
  ELSE calculateJobMatchScore(userProfile, job)

(***************************************************************************)
(* Inputs: the profiles and jobs the functions are applied to              *)
(***************************************************************************)

\* Longest primarySkills / secondarySkills list that is enumerated.
MaxSkills == 2

\* The objects that have the property with one of the values, or lack it.
optional(field, values) == {field :> v : v \in values} \cup {<<>>}

required(field, values) == {field :> v : v \in values}

\* Objects made of one part from each of two sets.
combine(A, B) == {a @@ b : a \in A, b \in B}

\* The arrays of at most n elements of S.
arraysUpTo(S, n) == UNION {[1..k -> S] : k \in 0..n}

\* Scenario A of the specification.
baseProfile ==
  [desiredPosition    |-> <<"F","r","o","n","t","e","n","d"," ","D","e","v","e","l","o","p","e","r">>,
   jobTypes           |-> <<<<"F","r","o","n","t","e","n","d">>>>,
   primarySkills      |-> <<<<"R","e","a","c","t">>, <<"J","a","v","a","S","c","r","i","p","t">>>>,
   currentLocation    |-> <<"B","r","a","t","i","s","l","a","v","a",","," ","S","l","o","v","a","k","i","a">>,
   preferredLocations |-> <<<<"B","r","a","t","i","s","l","a","v","a",","," ","S","l","o","v","a","k","i","a">>>>,
   remotePreference   |-> <<"f","l","e","x","i","b","l","e">>,
   experienceLevel    |-> <<"m","i","d">>]

baseJob ==
  [title           |-> <<"F","r","o","n","t","e","n","d"," ","D","e","v","e","l","o","p","e","r"," ","(","R","e","a","c","t",")">>,
   type            |-> <<"F","r","o","n","t","e","n","d">>,
   location        |-> <<"B","r","a","t","i","s","l","a","v","a",","," ","S","l","o","v","a","k","i","a">>,
   description     |-> <<"R","e","a","c","t",","," ","J","a","v","a","S","c","r","i","p","t",","," ","H","T","M","L",","," ","C","S","S">>,
   experienceLevel |-> <<"M","i","d">>]

\* base with the listed properties taken from part (or dropped when part lacks them).
override(base, fields, part) ==
  [f \in (DOMAIN base \ fields) \cup DOMAIN part |->
     IF f \in DOMAIN part THEN part[f] ELSE base[f]]

categoryProfiles ==
  { override(baseProfile, {"desiredPosition", "jobTypes"}, p) :
      p \in combine(
        optional("desiredPosition",
          { <<>>, <<"F","r","o","n","t","e","n","d"," ","D","e","v","e","l","o","p","e","r">>, <<"U","X"," ","D","e","s","i","g","n","e","r">>, <<"A","c","c","o","u","n","t","a","n","t">>,
            <<"H","R"," ","G","e","n","e","r","a","l","i","s","t">>, <<"R","e","c","r","u","i","t","e","r">>, <<"G","r","o","w","t","h"," ","L","e","a","d">>, <<"S","a","l","e","s"," ","R","e","p">>,
            <<"H","e","l","p"," ","D","e","s","k"," ","A","g","e","n","t">>, <<"S","c","r","u","m"," ","M","a","s","t","e","r">>, <<"C","h","e","f">> }),
        optional("jobTypes",
          { <<>>, <<<<"F","r","o","n","t","e","n","d">>>>, <<<<"O","t","h","e","r">>, <<"P","a","y","r","o","l","l">>>> })) }

jobKinds ==
  { [title |-> <<"F","r","o","n","t","e","n","d"," ","D","e","v","e","l","o","p","e","r"," ","(","R","e","a","c","t",")">>, type |-> <<"F","r","o","n","t","e","n","d">>],
    [title |-> <<"U","X"," ","D","e","s","i","g","n","e","r">>,                type |-> <<"D","e","s","i","g","n">>],
    [title |-> <<"P","a","y","r","o","l","l"," ","S","p","e","c","i","a","l","i","s","t">>,         type |-> <<"F","i","n","a","n","c","e">>],
    [title |-> <<"T","a","l","e","n","t"," ","P","a","r","t","n","e","r">>,             type |-> <<"H","R">>],
    [title |-> <<"S","E","O"," ","S","p","e","c","i","a","l","i","s","t">>,             type |-> <<"M","a","r","k","e","t","i","n","g">>],
    [title |-> <<"A","c","c","o","u","n","t"," ","M","a","n","a","g","e","r">>,            type |-> <<"S","a","l","e","s">>],
    [title |-> <<"C","u","s","t","o","m","e","r"," ","S","u","p","p","o","r","t">>,           type |-> <<"S","u","p","p","o","r","t">>],
    [title |-> <<"P","r","o","j","e","c","t"," ","M","a","n","a","g","e","r">>,            type |-> <<"M","a","n","a","g","e","m","e","n","t">>],
    [title |-> <<"C","h","e","f">>,                       type |-> <<"O","t","h","e","r">>],
    [title |-> <<"O","f","f","i","c","e"," ","A","s","s","i","s","t","a","n","t">>,           type |-> <<"O","t","h","e","r">>, category |-> <<"T","a","x">>],
    [title |-> <<"T","a","x"," ","S","o","f","t","w","a","r","e"," ","C","o","n","s","u","l","t","a","n","t">>,    type |-> <<"F","i","n","a","n","c","e">>] }

categoryJobs ==
  { override(baseJob, {"title", "type", "category"}, k) : k \in jobKinds }

locationProfiles ==
  { override(baseProfile,
             {"remotePreference", "currentLocation", "preferredLocations", "willingToRelocate"},
             p) :
      p \in combine(
        optional("remotePreference", { <<"r","e","m","o","t","e">>, <<"h","y","b","r","i","d">>, <<"o","n","s","i","t","e">>, <<"f","l","e","x","i","b","l","e">> }),
        combine(
          optional("currentLocation", { <<>>, <<"B","r","a","t","i","s","l","a","v","a",","," ","S","l","o","v","a","k","i","a">> }),
          combine(
            optional("preferredLocations",
                     { <<<<"B","r","a","t","i","s","l","a","v","a">>>>, <<<<"V","i","e","n","n","a">>, <<"P","r","a","g","u","e">>>> }),
            optional("willingToRelocate", { TRUE })))) }

locationJobs ==
  { override(baseJob, {"location", "description", "isRemote"}, j) :
      j \in combine(
        required("location",
          { <<"B","r","a","t","i","s","l","a","v","a",","," ","S","l","o","v","a","k","i","a">>, <<"R","e","m","o","t","e">>, <<"H","y","b","r","i","d"," ","(","V","i","e","n","n","a",")">>, <<"K","o","s","i","c","e",","," ","S","l","o","v","a","k","i","a">> }),
        { [description |-> <<"R","e","a","c","t",","," ","J","a","v","a","S","c","r","i","p","t",","," ","H","T","M","L",","," ","C","S","S">>],
          [description |-> <<"R","e","m","o","t","e","-","f","i","r","s","t"," ","t","e","a","m">>],
          [isRemote |-> TRUE],
          <<>> }) }

skillNames == { <<"R","e","a","c","t">>, <<"S","Q","L">> }

skillsProfiles ==
  { override(baseProfile, {"primarySkills", "secondarySkills"}, p) :
      p \in combine(optional("primarySkills", arraysUpTo(skillNames, MaxSkills)),
                    optional("secondarySkills", arraysUpTo(skillNames, MaxSkills))) }

skillsJobs ==
  { override(baseJob, {"title", "description"}, j) :
      j \in { [title |-> <<"F","r","o","n","t","e","n","d"," ","D","e","v","e","l","o","p","e","r"," ","(","R","e","a","c","t",")">>, description |-> <<"R","e","a","c","t",","," ","J","a","v","a","S","c","r","i","p","t",","," ","H","T","M","L",","," ","C","S","S">>],
              [title |-> <<"F","r","o","n","t","e","n","d"," ","D","e","v","e","l","o","p","e","r"," ","(","R","e","a","c","t",")">>],
              [title |-> <<"D","a","t","a"," ","A","n","a","l","y","s","t">>, description |-> <<"s","q","l"," ","a","n","d"," ","R","E","A","C","T">>],
              [title |-> <<"D","a","t","a"," ","A","n","a","l","y","s","t">>, description |-> <<>>] } }

aggregateProfiles ==
  { override(baseProfile,
             {"remotePreference", "preferredLocations", "willingToRelocate", "currentLocation",
              "primarySkills", "secondarySkills", "experienceLevel", "jobTypes"},
             p) :
      p \in combine(
        optional("remotePreference", { <<"r","e","m","o","t","e">>, <<"h","y","b","r","i","d">>, <<"o","n","s","i","t","e">>, <<"f","l","e","x","i","b","l","e">> }),
        combine(
          { [preferredLocations |-> <<<<"B","r","a","t","i","s","l","a","v","a">>>>, willingToRelocate |-> FALSE],
            [preferredLocations |-> <<>>, willingToRelocate |-> TRUE],
            [preferredLocations |-> <<>>, willingToRelocate |-> FALSE] },
          combine(
            { [primarySkills |-> <<>>, secondarySkills |-> <<>>],
              [primarySkills |-> <<<<"R","e","a","c","t">>, <<"J","a","v","a","S","c","r","i","p","t">>>>],
              [primarySkills |-> <<<<"R","e","a","c","t">>>>, secondarySkills |-> <<<<"S","Q","L">>, <<"C","S","S">>>>] },
            combine(
              required("experienceLevel", { <<"j","u","n","i","o","r">>, <<"s","e","n","i","o","r">> }),
              required("jobTypes", { <<<<"F","r","o","n","t","e","n","d">>>>, <<<<"F","u","l","l"," ","S","t","a","c","k">>>> }))))) }

aggregateJobs ==
  { override(baseJob, {"title", "type", "location", "experienceLevel"}, j) :
      j \in combine(
        { [title |-> <<"F","r","o","n","t","e","n","d"," ","D","e","v","e","l","o","p","e","r"," ","(","R","e","a","c","t",")">>, type |-> <<"F","r","o","n","t","e","n","d">>],
          [title |-> <<"U","X"," ","D","e","s","i","g","n","e","r">>,                type |-> <<"D","e","s","i","g","n">>],
          [title |-> <<"P","a","y","r","o","l","l"," ","S","p","e","c","i","a","l","i","s","t">>,         type |-> <<"F","i","n","a","n","c","e">>],
          [title |-> <<"C","h","e","f">>,                       type |-> <<"O","t","h","e","r">>] },
        combine(
          required("location", { <<"B","r","a","t","i","s","l","a","v","a",","," ","S","l","o","v","a","k","i","a">>, <<"R","e","m","o","t","e">>, <<"K","o","s","i","c","e",","," ","S","l","o","v","a","k","i","a">> }),
          required("experienceLevel", { <<"J","u","n","i","o","r">>, <<"S","e","n","i","o","r">> }))) }

remoteProfiles ==
  { override(baseProfile, {"remotePreference"}, p) :
      p \in optional("remotePreference",
                     { <<"r","e","m","o","t","e">>, <<"h","y","b","r","i","d">>, <<"o","n","s","i","t","e">>, <<"f","l","e","x","i","b","l","e">>, <<"R","e","m","o","t","e">> }) }

remoteJobs ==
  { override(baseJob, {"location", "description", "isRemote"}, j) :
      j \in combine(
        required("location",
          { <<"B","r","a","t","i","s","l","a","v","a",","," ","S","l","o","v","a","k","i","a">>, <<"R","e","m","o","t","e">>, <<"H","y","b","r","i","d"," ","(","V","i","e","n","n","a",")">> }),
        combine(
          optional("description", { <<"R","e","a","c","t",","," ","J","a","v","a","S","c","r","i","p","t",","," ","H","T","M","L",","," ","C","S","S">>, <<"R","e","m","o","t","e","-","f","i","r","s","t"," ","t","e","a","m">>,
                                    <<"H","y","b","r","i","d"," ","s","c","h","e","d","u","l","e">> }),
          optional("isRemote", { TRUE, FALSE }))) }

experienceProfiles ==
  { override(baseProfile, {"experienceLevel", "yearsOfExperience"}, p) :
      p \in combine(
        optional("experienceLevel",
                 { <<"j","u","n","i","o","r">>, <<"m","i","d">>, <<"s","e","n","i","o","r">>, <<"l","e","a","d">>, <<"S","e","n","i","o","r">>, <<"e","x","p","e","r","t">> }),
        optional("yearsOfExperience", { 0, 7 })) }

experienceJobs ==
  { override(baseJob, {"experienceLevel"}, j) :
      j \in optional("experienceLevel",
                     { <<"I","n","t","e","r","n","s","h","i","p">>, <<"J","u","n","i","o","r">>, <<"M","i","d">>, <<"S","e","n","i","o","r">>, <<"L","e","a","d">>,
                       <<"E","x","e","c","u","t","i","v","e">>, <<"s","e","n","i","o","r">> }) }

jobTypeProfiles ==
  { override(baseProfile, {"jobTypes"}, p) :
      p \in optional("jobTypes",
                     { <<>>, <<<<"F","r","o","n","t","e","n","d">>>>, <<<<"F","u","l","l"," ","S","t","a","c","k">>>>, <<<<"D","e","s","i","g","n">>, <<"F","U","L","L"," ","S","T","A","C","K">>>>,
                       <<<<"F","u","l","l"," ","S","t","a","c","k"," ","D","e","v","e","l","o","p","e","r">>>>, <<<<"F","r","o","n","t","e","n","d"," ","D","e","v","e","l","o","p","e","r">>>>, <<<<"E","n","d">>>>,
                       <<<<"D","e","v","O","p","s">>>> }) }

jobTypeJobs ==
  { override(baseJob, {"type"}, j) :
      j \in required("type", { <<"F","r","o","n","t","e","n","d">>, <<"B","a","c","k","e","n","d">>, <<"b","a","c","k","e","n","d"," ","e","n","g","i","n","e","e","r">>, <<"F","u","l","l"," ","S","t","a","c","k">>,
                               <<"F","i","n","a","n","c","e">> }) }

Inputs ==
  (categoryProfiles \X categoryJobs) \cup (locationProfiles \X locationJobs)
    \cup (skillsProfiles \X skillsJobs) \cup (aggregateProfiles \X aggregateJobs)
    \cup (remoteProfiles \X remoteJobs) \cup (experienceProfiles \X experienceJobs)
    \cup (jobTypeProfiles \X jobTypeJobs)

(***************************************************************************)
(* The state machine: a profile and a job, and the functions applied       *)
(***************************************************************************)

Init ==
  /\ \E in \in Inputs : profile = in[1] /\ posting = in[2]
  /\ call = "none"
  /\ result = <<>>
  /\ jobs = <<>>
  /\ seenUrls = {}
  /\ options = <<>>
  /\ memo = <<>>
  /\ servicesIdle

Apply(name, value) ==
  /\ call' = name
  /\ result' = value
  /\ UNCHANGED <<profile, posting, jobs, seenUrls, options, memo>>
  /\ UNCHANGED <<authVars, scrapes>>

CalculateJobMatchScore ==
  Apply("calculateJobMatchScore", calculateJobMatchScore(profile, posting))

CalculateJobCategoryMatch ==
  Apply("calculateJobCategoryMatch", calculateJobCategoryMatch(profile, posting))

CalculateLocationMatch ==
  Apply("calculateLocationMatch", calculateLocationMatch(profile, posting))

CalculateRemoteMatch ==
  Apply("calculateRemoteMatch", calculateRemoteMatch(profile, posting))

CalculateSkillsMatch ==
  Apply("calculateSkillsMatch", calculateSkillsMatch(profile, posting))

CalculateExperienceMatch ==
  Apply("calculateExperienceMatch", calculateExperienceMatch(profile, posting))

CalculateJobTypeMatch ==
  Apply("calculateJobTypeMatch", calculateJobTypeMatch(profile, posting))

Next ==
  \/ CalculateJobMatchScore
  \/ CalculateJobCategoryMatch
  \/ CalculateLocationMatch
  \/ CalculateRemoteMatch
  \/ CalculateSkillsMatch
  \/ CalculateExperienceMatch
  \/ CalculateJobTypeMatch

Spec == Init /\ [][Next]_vars

(***************************************************************************)
(* Dates: new Date(isoString), as days since 1970-01-01 and milliseconds   *)
(* of the day (the millisecond count itself exceeds 32-bit integers; the   *)
(* pair orders the same way)                                               *)
(***************************************************************************)

digitValue(c) == (CHOOSE d \in DOMAIN digits : digits[d] = c) - 1

\* The number written by the digits s[from..to].
RECURSIVE digitsValue(_, _, _)
digitsValue(s, from, to) ==
  IF to < from THEN 0
  ELSE 10 * digitsValue(s, from, to - 1) + digitValue(s[to])

\* Days from 1970-01-01 to the proleptic Gregorian date y-m-d.
daysFromCivil(y, m, d) ==
  LET yy  == IF m <= 2 THEN y - 1 ELSE y
      era == yy \div 400
      yoe == yy - era * 400
      mp  == IF m > 2 THEN m - 3 ELSE m + 9
      doy == (153 * mp + 2) \div 5 + d - 1
      doe == yoe * 365 + yoe \div 4 - yoe \div 100 + doy
  IN  era * 146097 + doe - 719468

\* new Date("YYYY-MM-DDTHH:mm:ss.sssZ").getTime(), the format of toISOString
dateGetTime(iso) ==
  [days |-> daysFromCivil(digitsValue(iso, 1, 4), digitsValue(iso, 6, 7),
                          digitsValue(iso, 9, 10)),
   ms   |-> ((digitsValue(iso, 12, 13) * 60 + digitsValue(iso, 15, 16)) * 60
             + digitsValue(iso, 18, 19)) * 1000 + digitsValue(iso, 21, 23)]

\* A number as a sort key of the same shape as a time.
numberKey(n) == [days |-> n, ms |-> 0]

\* b - a <= 0 for the numbers the keys stand for: a is not smaller than b
keyAtLeast_ascending(a, b) ==
  b.days > a.days \/ (a.days = b.days /\ b.ms >= a.ms)

keyAtLeast(a, b) ==
  a.days > b.days \/ (a.days = b.days /\ a.ms >= b.ms)

(***************************************************************************)
(* Arrays                                                                  *)
(***************************************************************************)

\* Array.prototype.sort((a, b) => key(b) - key(a)) on entries [item, key]:
\* descending by key, equal keys staying in their order (the sort is stable).
RECURSIVE insertByKey(_, _)
insertByKey(sorted, entry) ==
  IF sorted = <<>> THEN <<entry>>
  ELSE IF keyAtLeast(Head(sorted).key, entry.key)
       THEN <<Head(sorted)>> \o insertByKey(Tail(sorted), entry)
       ELSE <<entry>> \o sorted

RECURSIVE sortByKey(_)
sortByKey(entries) ==
  IF entries = <<>> THEN <<>>
  ELSE insertByKey(sortByKey(SubSeq(entries, 1, Len(entries) - 1)), entries[Len(entries)])

itemsOf(entries) == [i \in DOMAIN entries |-> entries[i].item]

\* Array.prototype.slice(0, end)
slice_fromEnd(arr, end) ==
  SubSeq(arr, Len(arr) - (IF end > Len(arr) THEN Len(arr) ELSE end) + 1, Len(arr))

slice(arr, end) ==
  LET k == IF end < 0 THEN (IF Len(arr) + end < 0 THEN 0 ELSE Len(arr) + end)
           ELSE IF end > Len(arr) THEN Len(arr) ELSE end
  IN  SubSeq(arr, 1, k)

\* Array.prototype.filter on the annotated jobs.
RECURSIVE filterSuitable(_, _)
filterSuitable(arr, minScore) ==
  IF arr = <<>> THEN <<>>
  ELSE LET rest == filterSuitable(Tail(arr), minScore)
       IN  IF Head(arr).suitable /\ Head(arr).matchScore >= minScore
           THEN <<Head(arr)>> \o rest ELSE rest

(***************************************************************************)
(* JobStore                                                                *)
(***************************************************************************)

\* `${job.title.toLowerCase()}_${job.company.toLowerCase()}`
jobKey(job) == toLowerCase(job.title) \o <<"_">> \o toLowerCase(job.company)

\* Map.prototype.set: a key the map has keeps its place, a new one goes last.
mapSet(store, job) ==
  IF \E i \in DOMAIN store : store[i].id = job.id
  THEN [i \in DOMAIN store |-> IF store[i].id = job.id THEN job ELSE store[i]]
  ELSE Append(store, job)

\* JobStore.addJob: the value returned, the map and the set afterwards.
addJob(store, urls, job) ==
  IF job.url \in urls
  THEN [returned |-> FALSE, jobs |-> store, seenUrls |-> urls]
  ELSE IF \E i \in DOMAIN store : jobKey(store[i]) = jobKey(job)
  THEN [returned |-> FALSE, jobs |-> store, seenUrls |-> urls]
  ELSE [returned |-> TRUE, jobs |-> mapSet(store, job), seenUrls |-> urls \cup {job.url}]

\* JobStore.getAllJobs: a new array of the stored jobs, latest scrapedAt first.
getAllJobs(store) ==
  itemsOf(sortByKey([i \in DOMAIN store |->
                       [item |-> store[i], key |-> dateGetTime(store[i].scrapedAt)]]))

(***************************************************************************)
(* getMatchedJobs                                                          *)
(***************************************************************************)

\* { ...job, matchScore, matchReasons, matchIssues, suitable }: the new
\* object, and the job it was made from as the step leaves it.
withMatch_inPlace(job, match) ==
  LET annotated == [matchScore   |-> match.score,
                    matchReasons |-> match.reasons,
                    matchIssues  |-> match.issues,
                    suitable     |-> match.suitable] @@ job
  IN  [copy |-> annotated, job |-> annotated]

withMatch(job, match) ==
  [copy |-> [matchScore   |-> match.score,
             matchReasons |-> match.reasons,
             matchIssues  |-> match.issues,
             suitable     |-> match.suitable] @@ job,
   job  |-> job]

\* Math.round((matches / total) * 100); 0 / 0 is NaN, the fraction 0/0.
matchRateOf(matches, total) ==
  IF total = 0 THEN [num |-> 0, den |-> 0]
  ELSE number(mathRound([num |-> matches * 100, den |-> total]))

\* allJobs.map(job => ({ ...job, matchScore: ..., ... })): for each job the
\* new object and the job as the callback leaves it.
mapWithMatch(userProfile, allJobs) ==
  [i \in DOMAIN allJobs |->
     withMatch(allJobs[i], calculateJobMatchScore(userProfile, allJobs[i]))]

copiesOf(mapped) == [i \in DOMAIN mapped |-> mapped[i].copy]

\* getMatchedJobs from the filter step on.
matchedFrom(jobsWithScores, opts) ==
  LET minScore       == orElse(opts, "minScore", 40)
      maxResults     == orElse(opts, "maxResults", 50)
      sortBy         == orElse(opts, "sortBy", <<"s","c","o","r","e">>)
      suitableJobs   == filterSuitable(jobsWithScores, minScore)
      sorted         ==
        IF sortBy = <<"s","c","o","r","e">>
        THEN itemsOf(sortByKey([i \in DOMAIN suitableJobs |->
               [item |-> suitableJobs[i], key |-> numberKey(suitableJobs[i].matchScore)]]))
        ELSE itemsOf(sortByKey([i \in DOMAIN suitableJobs |->
               [item |-> suitableJobs[i], key |-> dateGetTime(suitableJobs[i].postedDate)]]))
      limited        == slice(sorted, maxResults)
  IN  [jobs         |-> limited,
       totalMatches |-> Len(limited),
       totalJobs    |-> Len(jobsWithScores),
       matchRate    |-> matchRateOf(Len(limited), Len(jobsWithScores))]

getMatchedJobs(userProfile, opts, store) ==
  matchedFrom(copiesOf(mapWithMatch(userProfile, getAllJobs(store))), opts)

\* The stored job objects after the map step has visited them: allJobs holds
\* the objects of the map itself, each once, under its id.
jobsAfterMap(store, mapped) ==
  [i \in DOMAIN store |->
     mapped[CHOOSE k \in DOMAIN mapped : mapped[k].copy.id = store[i].id].job]

(***************************************************************************)
(* The job store and its callers                                           *)
(***************************************************************************)

\* Largest maxResults option that is enumerated.
MaxResults == 2

storeJob(id, title, type, company, location, description, level, posted, scraped) ==
  [id              |-> id,
   title           |-> title,
   company         |-> company,
   location        |-> location,
   url             |-> <<"h","t","t","p","s",":","/","/","j","o","b","s",".","e","x","a","m","p","l","e","/">> \o id,
   postedDate      |-> posted,
   scrapedAt       |-> scraped,
   description     |-> description,
   type            |-> type,
   experienceLevel |-> level]

frontendJob ==
  storeJob(<<"m","o","c","k","_","1">>, <<"F","r","o","n","t","e","n","d"," ","D","e","v","e","l","o","p","e","r"," ","(","R","e","a","c","t",")">>, <<"F","r","o","n","t","e","n","d">>, <<"E","s","e","t">>,
           <<"B","r","a","t","i","s","l","a","v","a",","," ","S","l","o","v","a","k","i","a">>, <<"R","e","a","c","t",","," ","J","a","v","a","S","c","r","i","p","t",","," ","H","T","M","L",","," ","C","S","S">>, <<"M","i","d">>,
           <<"2","0","2","4","-","1","2","-","2","8","T","0","9",":","3","0",":","0","0",".","0","0","0","Z">>, <<"2","0","2","5","-","0","1","-","1","0","T","0","8",":","0","0",":","0","0",".","0","0","0","Z">>)

remoteJob ==
  storeJob(<<"m","o","c","k","_","2">>, <<"R","e","a","c","t"," ","E","n","g","i","n","e","e","r">>, <<"F","r","o","n","t","e","n","d">>, <<"S","l","i",".","d","o">>,
           <<"R","e","m","o","t","e">>, <<"A","n","g","u","l","a","r",","," ","T","y","p","e","S","c","r","i","p","t">>, <<"S","e","n","i","o","r">>,
           <<"2","0","2","5","-","0","1","-","0","3","T","0","7",":","0","0",":","0","0",".","0","0","0","Z">>, <<"2","0","2","5","-","0","1","-","1","0","T","0","8",":","0","0",":","0","0",".","0","0","1","Z">>)

\* The same title and company as frontendJob, in another letter case.
repostedJob ==
  storeJob(<<"m","o","c","k","_","4">>, <<"F","R","O","N","T","E","N","D"," ","D","e","v","e","l","o","p","e","r"," ","(","R","e","a","c","t",")">>, <<"F","r","o","n","t","e","n","d">>, <<"E","S","E","T">>,
           <<"R","e","m","o","t","e">>, <<"R","e","a","c","t",","," ","J","a","v","a","S","c","r","i","p","t",","," ","H","T","M","L",","," ","C","S","S">>, <<"M","i","d">>,
           <<"2","0","2","5","-","0","1","-","0","6","T","1","0",":","0","0",":","0","0",".","0","0","0","Z">>, <<"2","0","2","5","-","0","1","-","1","0","T","0","8",":","0","0",":","0","0",".","0","0","0","Z">>)

designJob ==
  storeJob(<<"m","o","c","k","_","3">>, <<"U","X"," ","D","e","s","i","g","n","e","r">>, <<"D","e","s","i","g","n">>, <<"P","i","x","e","l"," ","F","e","d","e","r","a","t","i","o","n">>,
           <<"B","r","a","t","i","s","l","a","v","a",","," ","S","l","o","v","a","k","i","a">>, <<"F","i","g","m","a">>, <<"L","e","a","d">>,
           <<"2","0","2","5","-","0","1","-","0","8","T","1","0",":","0","0",":","0","0",".","0","0","0","Z">>, <<"2","0","2","5","-","0","1","-","1","0","T","0","8",":","0","0",":","0","0",".","0","0","1","Z">>)

payrollJob ==
  storeJob(<<"m","o","c","k","_","5">>, <<"P","a","y","r","o","l","l"," ","S","p","e","c","i","a","l","i","s","t">>, <<"F","i","n","a","n","c","e">>, <<"T","a","t","r","a"," ","b","a","n","k","a">>,
           <<"B","r","a","t","i","s","l","a","v","a",","," ","S","l","o","v","a","k","i","a">>, <<"P","a","y","r","o","l","l"," ","a","n","d"," ","t","a","x">>, <<"M","i","d">>,
           <<"2","0","2","5","-","0","1","-","0","5","T","1","2",":","0","0",":","0","0",".","0","0","0","Z">>, <<"2","0","2","5","-","0","1","-","0","9","T","2","3",":","5","9",":","5","9",".","9","9","9","Z">>)

scrapedJobs == { frontendJob, remoteJob, repostedJob, designJob }

seniorRemoteProfile ==
  [desiredPosition    |-> <<"F","u","l","l"," ","S","t","a","c","k"," ","E","n","g","i","n","e","e","r">>,
   jobTypes           |-> <<<<"F","u","l","l"," ","S","t","a","c","k">>>>,
   primarySkills      |-> <<<<"R","e","a","c","t">>>>,
   secondarySkills    |-> <<<<"S","Q","L">>>>,
   currentLocation    |-> <<"K","o","s","i","c","e",","," ","S","l","o","v","a","k","i","a">>,
   preferredLocations |-> <<<<"K","o","s","i","c","e",","," ","S","l","o","v","a","k","i","a">>>>,
   remotePreference   |-> <<"r","e","m","o","t","e">>,
   experienceLevel    |-> <<"s","e","n","i","o","r">>]

storeProfiles == { baseProfile, seniorRemoteProfile }

storePostings == { frontendJob, payrollJob }

optionsGiven ==
  combine(optional("minScore", { 70 }),
          combine(optional("maxResults", 0..MaxResults),
                  optional("sortBy", { <<"d","a","t","e">> })))

StoreInit ==
  /\ profile \in storeProfiles
  /\ posting \in storePostings
  /\ call = "none"
  /\ result = <<>>
  /\ jobs = <<>>
  /\ seenUrls = {}
  /\ options = <<>>
  /\ memo = <<>>
  /\ servicesIdle

\* A caller turns to another profile and another job.
NextRequest ==
  \E p \in storeProfiles, j \in storePostings :
    /\ profile' = p
    /\ posting' = j
    /\ call' = "none"
    /\ result' = <<>>
    /\ options' = <<>>
    /\ UNCHANGED <<jobs, seenUrls, memo>>
    /\ UNCHANGED <<authVars, scrapes>>

\* jobStore.addJob(job), for a job a scraper produced.
AddJob ==
  \E job \in scrapedJobs :
    LET added == addJob(jobs, seenUrls, job)
    IN  /\ call' = "addJob"
        /\ result' = added.returned
        /\ jobs' = added.jobs
        /\ seenUrls' = added.seenUrls
        /\ options' = <<>>
        /\ UNCHANGED <<profile, posting, memo>>
        /\ UNCHANGED <<authVars, scrapes>>

\* jobStore.clearJobs()
ClearJobs ==
  /\ call' = "clearJobs"
  /\ result' = undefined
  /\ jobs' = <<>>
  /\ seenUrls' = {}
  /\ options' = <<>>
  /\ UNCHANGED <<profile, posting, memo>>
  /\ UNCHANGED <<authVars, scrapes>>

\* getMatchedJobs(profile, opts)
GetMatchedJobs ==
  \E mapped \in {mapWithMatch(profile, getAllJobs(jobs))} :
    \E opts \in optionsGiven :
      /\ call' = "getMatchedJobs"
      /\ result' = matchedFrom(copiesOf(mapped), opts)
      /\ jobs' = jobsAfterMap(jobs, mapped)
      /\ options' = opts
      /\ UNCHANGED <<profile, posting, seenUrls, memo>>
      /\ UNCHANGED <<authVars, scrapes>>

\* calculateJobMatchScore(profile, posting); the history variable keeps this
\* call (with whether the store was empty then) or the one it already holds.
ScoreJob ==
  \E match \in {calculateJobMatchScore(profile, posting)} :
    \E remember \in BOOLEAN :
      /\ call' = "calculateJobMatchScore"
      /\ result' = match
      /\ memo' = IF remember
                 THEN [profile |-> profile, job |-> posting, result |-> match,
                       emptyStore |-> jobs = <<>>]
                 ELSE memo
      /\ options' = <<>>
      /\ UNCHANGED <<profile, posting, jobs, seenUrls>>
      /\ UNCHANGED <<authVars, scrapes>>

StoreNext ==
  \/ NextRequest
  \/ AddJob
  \/ ClearJobs
  \/ GetMatchedJobs
  \/ ScoreJob

StoreSpec == StoreInit /\ [][StoreNext]_vars

(***************************************************************************)
(* Profiles and jobs with properties left out                              *)
(***************************************************************************)

\* obj with only the listed properties.
restrict(obj, fields) == [f \in fields |-> obj[f]]

fullProfile ==
  [desiredPosition    |-> <<"F","r","o","n","t","e","n","d"," ","D","e","v","e","l","o","p","e","r">>,
   jobTypes           |-> <<<<"F","r","o","n","t","e","n","d">>>>,
   primarySkills      |-> <<<<"R","e","a","c","t">>, <<"J","a","v","a","S","c","r","i","p","t">>>>,
   secondarySkills    |-> <<<<"S","Q","L">>>>,
   currentLocation    |-> <<"B","r","a","t","i","s","l","a","v","a",","," ","S","l","o","v","a","k","i","a">>,
   preferredLocations |-> <<<<"V","i","e","n","n","a">>>>,
   willingToRelocate  |-> TRUE,
   remotePreference   |-> <<"r","e","m","o","t","e">>,
   experienceLevel    |-> <<"m","i","d">>,
   yearsOfExperience  |-> 3]

fullJob ==
  [title           |-> <<"F","r","o","n","t","e","n","d"," ","D","e","v","e","l","o","p","e","r"," ","(","R","e","a","c","t",")">>,
   type            |-> <<"F","r","o","n","t","e","n","d">>,
   location        |-> <<"B","r","a","t","i","s","l","a","v","a",","," ","S","l","o","v","a","k","i","a">>,
   description     |-> <<"R","e","a","c","t",","," ","r","e","m","o","t","e","-","f","r","i","e","n","d","l","y">>,
   category        |-> <<"f","r","o","n","t","e","n","d"," ","d","e","v","e","l","o","p","e","r">>,
   isRemote        |-> TRUE,
   experienceLevel |-> <<"M","i","d">>]

\* Every profile that lacks some of the properties, with every job that has
\* title, type and location; and jobs that lack one of these three.
partialInputs ==
  ({restrict(fullProfile, present) : present \in SUBSET DOMAIN fullProfile}
     \X {restrict(fullJob, {"title", "type", "location"} \cup present) :
           present \in SUBSET {"description", "category", "isRemote", "experienceLevel"}})
  \cup
  ({fullProfile, restrict(fullProfile, {"desiredPosition"}),
    override(fullProfile, {"desiredPosition"}, [desiredPosition |-> <<"A","c","c","o","u","n","t","a","n","t">>])}
     \X {restrict(fullJob, DOMAIN fullJob \ {absent}) :
           absent \in {"title", "type", "location"}})

OptionalInit ==
  /\ \E in \in partialInputs : profile = in[1] /\ posting = in[2]
  /\ call = "none"
  /\ result = <<>>
  /\ jobs = <<>>
  /\ seenUrls = {}
  /\ options = <<>>
  /\ memo = <<>>
  /\ servicesIdle

TryCalculateJobMatchScore ==
  Apply("calculateJobMatchScore", tryCalculateJobMatchScore(profile, posting))

OptionalNext == TryCalculateJobMatchScore

OptionalSpec == OptionalInit /\ [][OptionalNext]_vars

(***************************************************************************)
(* JobStore: expiration, and the store under the jobs a scraper lists      *)
(***************************************************************************)

\* a < b on times
timeBefore(a, b) == a.days < b.days \/ (a.days = b.days /\ a.ms < b.ms)

\* new Date(now.getTime() - 30 * 24 * 60 * 60 * 1000)
thirtyDaysBefore(now) == [days |-> now.days - 30, ms |-> now.ms]

\* shouldRemove of the loop body: posted more than thirty days ago, or past
\* the application deadline if there is one.
shouldRemove(job, now) ==
  \/ timeBefore(dateGetTime(job.postedDate), thirtyDaysBefore(now))
  \/ /\ has(job, "applicationDeadline")
     /\ timeBefore(dateGetTime(job.applicationDeadline), now)

RECURSIVE selectKept(_, _)
selectKept(store, now) ==
  IF store = <<>> THEN <<>>
  ELSE IF shouldRemove(Head(store), now) THEN selectKept(Tail(store), now)
  ELSE <<Head(store)>> \o selectKept(Tail(store), now)

removeExpiredJobs_keepsUrls(store, urls, now) ==
  LET kept == selectKept(store, now)
  IN  [returned |-> Len(store) - Len(kept), jobs |-> kept, seenUrls |-> urls]

\* JobStore.removeExpiredJobs at the time now: the count returned, the map
\* and the set afterwards.
removeExpiredJobs(store, urls, now) ==
  LET kept    == selectKept(store, now)
      removed == {store[i].url : i \in {k \in DOMAIN store :
                                          /\ shouldRemove(store[k], now)
                                          /\ has(store[k], "url")
                                          /\ store[k].url # <<>>}}
  IN  [returned |-> Len(store) - Len(kept), jobs |-> kept, seenUrls |-> urls \ removed]

\* Another position at the company of frontendJob: the career page of the
\* company is the url of both.
backendJob ==
  [storeJob(<<"m","o","c","k","_","6">>, <<"B","a","c","k","e","n","d"," ","D","e","v","e","l","o","p","e","r">>, <<"B","a","c","k","e","n","d">>, <<"E","s","e","t">>,
            <<"B","r","a","t","i","s","l","a","v","a",","," ","S","l","o","v","a","k","i","a">>, <<"N","o","d","e",".","j","s",","," ","S","Q","L">>, <<"S","e","n","i","o","r">>,
            <<"2","0","2","5","-","0","1","-","0","7","T","1","1",":","0","0",":","0","0",".","0","0","0","Z">>, <<"2","0","2","5","-","0","1","-","1","0","T","0","8",":","0","0",":","0","0",".","0","0","2","Z">>)
     EXCEPT !.url = frontendJob.url]

\* A job with an application deadline.
deadlineJob ==
  [f \in DOMAIN designJob \cup {"applicationDeadline"} |->
     IF f = "applicationDeadline" THEN <<"2","0","2","5","-","0","1","-","3","1","T","2","3",":","5","9",":","5","9",".","0","0","0","Z">> ELSE designJob[f]]

listedJobs == { frontendJob, repostedJob, backendJob, deadlineJob, remoteJob }

\* The times of the expiration checks: before anything expires; thirty days
\* to the millisecond after frontendJob was posted; a day later; after the
\* deadline of deadlineJob.
checkTimes ==
  { <<"2","0","2","5","-","0","1","-","1","0","T","0","6",":","0","0",":","0","0",".","0","0","0","Z">>, <<"2","0","2","5","-","0","1","-","2","7","T","0","9",":","3","0",":","0","0",".","0","0","0","Z">>,
    <<"2","0","2","5","-","0","1","-","2","8","T","0","6",":","0","0",":","0","0",".","0","0","0","Z">>, <<"2","0","2","5","-","0","2","-","0","3","T","0","6",":","0","0",":","0","0",".","0","0","0","Z">> }

\* memo: the jobs expiration has removed so far.
DedupInit ==
  /\ profile = baseProfile
  /\ posting = frontendJob
  /\ call = "none"
  /\ result = <<>>
  /\ jobs = <<>>
  /\ seenUrls = {}
  /\ options = <<>>
  /\ memo = {}
  /\ servicesIdle

\* jobStore.addJob(job); posting is the job passed.
AddListedJob ==
  \E job \in listedJobs :
    LET added == addJob(jobs, seenUrls, job)
    IN  /\ call' = "addJob"
        /\ posting' = job
        /\ result' = added.returned
        /\ jobs' = added.jobs
        /\ seenUrls' = added.seenUrls
        /\ UNCHANGED <<profile, options, memo>>
        /\ UNCHANGED <<authVars, scrapes>>

\* jobStore.removeExpiredJobs(), run by the scheduler at one of the times.
RemoveExpiredJobs ==
  \E now \in checkTimes :
    LET after == removeExpiredJobs(jobs, seenUrls, dateGetTime(now))
    IN  /\ call' = "removeExpiredJobs"
        /\ result' = after.returned
        /\ jobs' = after.jobs
        /\ seenUrls' = after.seenUrls
        /\ memo' = memo \cup {jobs[i] : i \in {k \in DOMAIN jobs :
                                                 shouldRemove(jobs[k], dateGetTime(now))}}
        /\ UNCHANGED <<profile, posting, options>>
        /\ UNCHANGED <<authVars, scrapes>>

DedupNext ==
  \/ AddListedJob
  \/ ClearJobs
  \/ RemoveExpiredJobs

DedupSpec == DedupInit /\ [][DedupNext]_vars


(***************************************************************************)
(* authService, in-memory mode (isSupabaseEnabled() is false)              *)
(***************************************************************************)

\* Calls that create ids are made at distinct clock ticks; the bound on them.
MaxClock == 2

\* throw new Error(message)
error(message) == [threw |-> message]

\* `session_${Date.now()}_${random}`
sessionIdAt(now) == <<"session", now>>

\* Map.prototype.set
mapPut(map, key, value) == [k \in DOMAIN map \cup {key} |-> IF k = key THEN value ELSE map[k]]

\* !email || !email.includes('@')
invalidEmail(email) == email = <<>> \/ ~includes(email, <<"@">>)

\* !password || password.length < 6
invalidPassword(password) == password = <<>> \/ Len(password) < 6

\* InMemoryUserStore.verifyPassword: user && user.password === password
verifyPassword(email, password) ==
  email \in DOMAIN users /\ usersById[users[email]].password = password

\* InMemoryUserStore.getSession yields a user: the session maps to the id of
\* a stored user.
hasSessionUser(sessionId) ==
  sessionId \in DOMAIN sessions /\ sessions[sessionId] \in DOMAIN usersById

\* The user object the session maps to.
getSession(sessionId) == usersById[sessions[sessionId]]

deleteSession_everySession(map, sessionId) == [s \in {} |-> map[s]]

\* InMemoryUserStore.deleteSession
deleteSession(map, sessionId) == [s \in DOMAIN map \ {sessionId} |-> map[s]]

\* InMemoryUserStore.updateProfile on the user object
updateProfile(user, newProfile, now) ==
  [f \in DOMAIN user \cup {"updated_at"} |->
     IF f = "profile" THEN newProfile
     ELSE IF f = "updated_at" THEN now
     ELSE user[f]]

\* The user as the service returns it.
userOf(user) ==
  [id |-> user.id, email |-> user.email, profile |-> user.profile,
   createdAt |-> user.created_at]

\* verifySession(sessionId): !!user
verifySession(sessionId) == hasSessionUser(sessionId)

\* getCurrentUser(sessionId)
getCurrentUser(sessionId) ==
  IF hasSessionUser(sessionId) THEN userOf(getSession(sessionId)) ELSE null

emailsGiven == { <<"a","n","n","@","c","v",".","s","k">>, <<"b","o","b","@","c","v",".","s","k">>, <<"a","n","n",".","c","v",".","s","k">>, <<>> }

\* Passwords given to signUp, and passwords tried at signIn.
passwordsGiven == { <<"s","e","c","r","e","t","1">>, <<"1","2","3","4","5">> }

passwordsTried == { <<"s","e","c","r","e","t","1">>, <<"h","u","n","t","e","r","2">> }

profilesGiven == { <<>>, [desiredPosition |-> <<"C","h","e","f">>] }

\* Session tokens a caller presents: issued ones and ones never issued.
sessionIdsGiven == { sessionIdAt(t) : t \in 0..MaxClock }

\* memo: the sessions issued and not signed out since, with their owners.
AuthInit ==
  /\ profile = <<>>
  /\ posting = <<>>
  /\ call = "none"
  /\ result = <<>>
  /\ jobs = <<>>
  /\ seenUrls = {}
  /\ options = <<>>
  /\ memo = <<>>
  /\ servicesIdle

\* signUp(email, password), profile being the default {}
SignUp ==
  \E email \in emailsGiven, password \in passwordsGiven, newProfile \in {<<>>} :
    LET user == [id |-> <<"user", clock>>, email |-> email, password |-> password,
                 profile |-> newProfile, created_at |-> clock]
        sessionId == sessionIdAt(clock)
        failure ==
          IF invalidEmail(email) THEN error("Invalid email address")
          ELSE IF invalidPassword(password)
          THEN error("Password must be at least 6 characters")
          ELSE IF email \in DOMAIN users THEN error("User already exists")
          ELSE <<>>
    IN  /\ call' = "signUp"
        /\ options' = [email |-> email, password |-> password, profile |-> newProfile]
        /\ IF failure # <<>>
           THEN /\ result' = failure
                /\ UNCHANGED <<users, usersById, sessions, clock, memo>>
           ELSE /\ clock < MaxClock
                /\ users' = mapPut(users, email, user.id)
                /\ usersById' = mapPut(usersById, user.id, user)
                /\ sessions' = mapPut(sessions, sessionId, user.id)
                /\ memo' = mapPut(memo, sessionId, user.id)
                /\ clock' = clock + 1
                /\ result' = [success |-> TRUE, user |-> userOf(user),
                              sessionId |-> sessionId]
        /\ UNCHANGED <<profile, posting, jobs, seenUrls, scrapes>>

\* signIn(email, password)
SignIn ==
  \E email \in emailsGiven, password \in passwordsTried :
    LET sessionId == sessionIdAt(clock)
    IN  /\ call' = "signIn"
        /\ options' = [email |-> email, password |-> password]
        /\ IF ~verifyPassword(email, password)
           THEN /\ result' = error("Invalid email or password")
                /\ UNCHANGED <<sessions, clock, memo>>
           ELSE /\ clock < MaxClock
                /\ sessions' = mapPut(sessions, sessionId, users[email])
                /\ memo' = mapPut(memo, sessionId, users[email])
                /\ clock' = clock + 1
                /\ result' = [success |-> TRUE, user |-> userOf(usersById[users[email]]),
                              sessionId |-> sessionId]
        /\ UNCHANGED <<users, usersById>>
        /\ UNCHANGED <<profile, posting, jobs, seenUrls, scrapes>>

\* signOut(sessionId)
SignOut ==
  \E sessionId \in sessionIdsGiven :
    /\ call' = "signOut"
    /\ options' = [sessionId |-> sessionId]
    /\ sessions' = deleteSession(sessions, sessionId)
    /\ memo' = [s \in DOMAIN memo \ {sessionId} |-> memo[s]]
    /\ result' = [success |-> TRUE]
    /\ UNCHANGED <<users, usersById, clock>>
    /\ UNCHANGED <<profile, posting, jobs, seenUrls, scrapes>>

\* getCurrentUser(sessionId)
GetCurrentUser ==
  \E sessionId \in sessionIdsGiven :
    /\ call' = "getCurrentUser"
    /\ options' = [sessionId |-> sessionId]
    /\ result' = getCurrentUser(sessionId)
    /\ UNCHANGED <<authVars, memo>>
    /\ UNCHANGED <<profile, posting, jobs, seenUrls, scrapes>>

\* updateUserProfile(sessionId, profile)
UpdateUserProfile ==
  \E sessionId \in sessionIdsGiven, newProfile \in profilesGiven :
    /\ call' = "updateUserProfile"
    /\ options' = [sessionId |-> sessionId, profile |-> newProfile]
    /\ IF ~hasSessionUser(sessionId)
       THEN /\ result' = error("Not authenticated")
            /\ UNCHANGED usersById
       ELSE LET updatedUser == updateProfile(getSession(sessionId), newProfile, clock)
            IN  /\ usersById' = mapPut(usersById, updatedUser.id, updatedUser)
                /\ result' = [success |-> TRUE,
                              user |-> [id |-> updatedUser.id, email |-> updatedUser.email,
                                        profile |-> updatedUser.profile,
                                        updatedAt |-> updatedUser.updated_at]]
    /\ UNCHANGED <<users, sessions, clock, memo>>
    /\ UNCHANGED <<profile, posting, jobs, seenUrls, scrapes>>

\* verifySession(sessionId)
VerifySession ==
  \E sessionId \in sessionIdsGiven :
    /\ call' = "verifySession"
    /\ options' = [sessionId |-> sessionId]
    /\ result' = verifySession(sessionId)
    /\ UNCHANGED <<authVars, memo>>
    /\ UNCHANGED <<profile, posting, jobs, seenUrls, scrapes>>

AuthNext ==
  \/ SignUp
  \/ SignIn
  \/ SignOut
  \/ GetCurrentUser
  \/ UpdateUserProfile
  \/ VerifySession

AuthSpec == AuthInit /\ [][AuthNext]_vars


(***************************************************************************)
(* scrapeJobsFromLinkedIn: an async function on the event loop.  A task    *)
(* runs from where it is to its next await without any other code running  *)
(* in between; at an await any other task or request handler may run.      *)
(***************************************************************************)

\* The number of pages one scrape fetches (keywords and locations).
MaxPages == 2

\* if (allJobs.length < 10): the number below which mock jobs are added.
FewResults == 2

\* The statements of the function that matter, in order, each with whether
\* it awaits: the try block from the first loop on, then the catch block.
scrapeBody_awaitInRefresh ==
  << [op |-> "scrapeJobsForKeyword", awaits |-> TRUE],
     [op |-> "setTimeout",           awaits |-> TRUE],
     [op |-> "nextKeyword",          awaits |-> FALSE],
     [op |-> "mockIfFew",            awaits |-> FALSE],
     [op |-> "clearJobs",            awaits |-> FALSE],
     [op |-> "setTimeout",           awaits |-> TRUE],
     [op |-> "addJobs",              awaits |-> FALSE],
     [op |-> "return",               awaits |-> FALSE],
     [op |-> "catch",                awaits |-> FALSE],
     [op |-> "clearJobs",            awaits |-> FALSE],
     [op |-> "addJobs",              awaits |-> FALSE],
     [op |-> "return",               awaits |-> FALSE] >>

scrapeBody ==
  << [op |-> "scrapeJobsForKeyword", awaits |-> TRUE],
     [op |-> "setTimeout",           awaits |-> TRUE],
     [op |-> "nextKeyword",          awaits |-> FALSE],
     [op |-> "mockIfFew",            awaits |-> FALSE],
     [op |-> "clearJobs",            awaits |-> FALSE],
     [op |-> "addJobs",              awaits |-> FALSE],
     [op |-> "return",               awaits |-> FALSE],
     [op |-> "catch",                awaits |-> FALSE],
     [op |-> "clearJobs",            awaits |-> FALSE],
     [op |-> "addJobs",              awaits |-> FALSE],
     [op |-> "return",               awaits |-> FALSE] >>

\* mockGenerator.generateMockJobs(n): one of them a duplicate of another.
mockJobs == <<frontendJob, repostedJob, designJob>>

\* allJobs.forEach(job => jobStore.addJob(job))
RECURSIVE addJobs(_, _, _)
addJobs(store, urls, list) ==
  IF list = <<>> THEN [jobs |-> store, seenUrls |-> urls]
  ELSE LET added == addJob(store, urls, Head(list))
       IN  addJobs(added.jobs, added.seenUrls, Tail(list))

\* One statement, on the task's locals (pc, page, allJobs), the store (jobs,
\* seenUrls) and the history (published, midRefresh); resumed is what the
\* await the task was suspended at delivers.
step(op, s, resumed) ==
  CASE op = "scrapeJobsForKeyword" ->
         IF resumed.kind = "throws"
         THEN [s EXCEPT !.pc = CHOOSE k \in DOMAIN scrapeBody : scrapeBody[k].op = "catch"]
         ELSE [s EXCEPT !.allJobs = @ \o resumed.jobs, !.pc = @ + 1]
    [] op = "setTimeout" -> [s EXCEPT !.pc = @ + 1]
    [] op = "nextKeyword" ->
         IF s.page + 1 < MaxPages
         THEN [s EXCEPT !.page = @ + 1, !.pc = 1]
         ELSE [s EXCEPT !.pc = @ + 1]
    [] op = "mockIfFew" ->
         [s EXCEPT !.allJobs = IF Len(@) < FewResults THEN @ \o mockJobs ELSE @, !.pc = @ + 1]
    [] op = "catch" -> [s EXCEPT !.allJobs = mockJobs, !.pc = @ + 1]
    [] op = "clearJobs" ->
         [s EXCEPT !.jobs = <<>>, !.seenUrls = {}, !.midRefresh = TRUE, !.pc = @ + 1]
    [] op = "addJobs" ->
         LET filled == addJobs(s.jobs, s.seenUrls, s.allJobs)
         IN  [s EXCEPT !.jobs = filled.jobs, !.seenUrls = filled.seenUrls,
                       !.published = filled.jobs, !.midRefresh = FALSE, !.pc = @ + 1]
    [] op = "return" -> [s EXCEPT !.pc = 0, !.page = 0, !.allJobs = <<>>]

\* The task runs until it returns (pc = 0) or reaches an await.
RECURSIVE runToAwait(_, _)
runToAwait(s, resumed) ==
  IF s.pc = 0 THEN s
  ELSE IF scrapeBody[s.pc].awaits /\ resumed.kind = "none" THEN s
  ELSE runToAwait(step(scrapeBody[s.pc].op, s, resumed), [kind |-> "none"])

\* What a page of search results yields: nothing (also on a failed request),
\* one job, two jobs.
pagesGiven == { <<>>, <<remoteJob>>, <<remoteJob, repostedJob>> }

\* Who invokes the function: the cron schedule and POST /api/job-offers/scrape.
scrapeCallers == {"schedule", "triggerScraping"}

\* The server after start: the store holds the mock jobs; memo is the
\* history: the collection of the last refresh and whether one is under way.
ScrapeInit ==
  /\ profile = baseProfile
  /\ posting = frontendJob
  /\ call = "none"
  /\ result = <<>>
  /\ jobs = addJobs(<<>>, {}, mockJobs).jobs
  /\ seenUrls = addJobs(<<>>, {}, mockJobs).seenUrls
  /\ options = <<>>
  /\ memo = [published |-> addJobs(<<>>, {}, mockJobs).jobs, midRefresh |-> FALSE]
  /\ users = <<>> /\ usersById = <<>> /\ sessions = <<>> /\ clock = 0
  /\ scrapes = [c \in scrapeCallers |-> [pc |-> 0, page |-> 0, allJobs |-> <<>>]]

\* The task c after running from state s, with the store and the history.
Suspend(c, s) ==
  /\ call' = "scrapeJobsFromLinkedIn"
  /\ result' = [returned |-> s.pc = 0]
  /\ scrapes' = [scrapes EXCEPT ![c] = [pc |-> s.pc, page |-> s.page, allJobs |-> s.allJobs]]
  /\ jobs' = s.jobs
  /\ seenUrls' = s.seenUrls
  /\ memo' = [published |-> s.published, midRefresh |-> s.midRefresh]
  /\ options' = <<>>
  /\ UNCHANGED <<profile, posting, authVars>>

taskState(c, pc) ==
  [pc |-> pc, page |-> scrapes[c].page, allJobs |-> scrapes[c].allJobs,
   jobs |-> jobs, seenUrls |-> seenUrls,
   published |-> memo.published, midRefresh |-> memo.midRefresh]

\* scrapeJobsFromLinkedIn() is called: it runs to its first await.
StartScrape ==
  \E c \in scrapeCallers :
    /\ scrapes[c].pc = 0
    /\ Suspend(c, runToAwait(taskState(c, 1), [kind |-> "none"]))

\* The await a task is suspended at settles and the task runs on: a scrape
\* call delivers a page of jobs or throws, a timer delivers nothing.
ResumeScrape ==
  \E c \in scrapeCallers :
    /\ scrapes[c].pc # 0
    /\ \E resumed \in
           IF scrapeBody[scrapes[c].pc].op = "scrapeJobsForKeyword"
           THEN {[kind |-> "value", jobs |-> p] : p \in pagesGiven} \cup {[kind |-> "throws"]}
           ELSE {[kind |-> "value", jobs |-> <<>>]} :
         Suspend(c, runToAwait(taskState(c, scrapes[c].pc), resumed))

\* POST /api/job-offers/matched with a profile and no options: the handler
\* calls getMatchedJobs with the defaults and does not await.
GetMatchedJobsForProfile ==
  \E mapped \in {mapWithMatch(profile, getAllJobs(jobs))} :
    /\ call' = "getMatchedJobs"
    /\ result' = matchedFrom(copiesOf(mapped), <<>>)
    /\ jobs' = jobsAfterMap(jobs, mapped)
    /\ options' = <<>>
    /\ UNCHANGED <<profile, posting, seenUrls, memo>>
    /\ UNCHANGED <<authVars, scrapes>>

ScrapeNext ==
  \/ StartScrape
  \/ ResumeScrape
  \/ GetMatchedJobsForProfile

ScrapeSpec == ScrapeInit /\ [][ScrapeNext]_vars
(***************************************************************************)
(* Properties                                                              *)
(***************************************************************************)

TypeOK ==
  call \in {"none", "calculateJobMatchScore", "calculateJobCategoryMatch",
            "calculateLocationMatch", "calculateRemoteMatch", "calculateSkillsMatch",
            "calculateExperienceMatch", "calculateJobTypeMatch"}

\* The state holds the MatchResult of calculateJobMatchScore(profile, posting).
Scored == call = "calculateJobMatchScore"

\* What each matcher returns for the profile and the job of the state.
CategoryNow   == calculateJobCategoryMatch(profile, posting)
LocationNow   == calculateLocationMatch(profile, posting)
RemoteNow     == calculateRemoteMatch(profile, posting)
SkillsNow     == calculateSkillsMatch(profile, posting)
ExperienceNow == calculateExperienceMatch(profile, posting)
JobTypeNow    == calculateJobTypeMatch(profile, posting)

\* The two hard filters, as the specification words them.
CategoryRejects == ~CategoryNow.match
LocationRejects == ~LocationNow.match /\ truthy(LocationNow, "issue")
NoHardFilter    == ~CategoryRejects /\ ~LocationRejects

\* category + location + remote + skills + experience + jobType
ComponentSum ==
  plus(number(CategoryNow.score + LocationNow.score + RemoteNow.score
              + ExperienceNow.score + JobTypeNow.score),
       SkillsNow.score)

\* Two fractions denote the same number.
SameNumber(a, b) == a.num * b.den = b.num * a.den

\* n is x rounded to the nearest integer, a half rounding up.
IsRounded(n, x) ==
  /\ (2 * n - 1) * x.den <= 2 * x.num
  /\ 2 * x.num < (2 * n + 1) * x.den

\* n = round(min(100, x))
IsRoundedClamped(n, x) ==
  IF atLeast(x, number(100)) THEN n = 100 ELSE IsRounded(n, x)

\* The reason the category step leaves in the list, if any.
CategoryReasons ==
  IF has(CategoryNow, "reason") /\ CategoryNow.reason # emptyString
  THEN <<CategoryNow.reason>> ELSE <<>>

InReasons(r) == \E i \in DOMAIN result.reasons : result.reasons[i] = r

\* The user's and the job's strings as the matchers compare them.
PreferenceNow == orElse(profile, "remotePreference", undefined)

JobLocationContains(s) == includes(toLowerCase(posting.location), toLowerCase(s))

SomePreferredContained ==
  LET preferred == orElse(profile, "preferredLocations", <<>>)
  IN  \E i \in DOMAIN preferred : JobLocationContains(preferred[i])

\* A current location is given (a missing or empty one is none) and the job
\* location contains it.
CurrentContained ==
  /\ has(profile, "currentLocation")
  /\ profile.currentLocation # <<>>
  /\ JobLocationContains(profile.currentLocation)

Willing == has(profile, "willingToRelocate") /\ profile.willingToRelocate = TRUE

\* Rule 2 and rule 3 of the location matcher.
RemoteOnlyRule  == PreferenceNow = <<"r","e","m","o","t","e">> /\ ~isRemoteJob(posting) /\ ~SomePreferredContained
OnsiteSoftRule  == PreferenceNow = <<"o","n","s","i","t","e">> /\ isRemoteJob(posting) /\ ~JobLocationContains(<<"h","y","b","r","i","d">>)

----------------------------------------------------------------------------
\* C1: for every profile and job, calculateJobMatchScore returns a score that
\* is a whole number with 0 <= score <= 100; a component sum above 100 (up to
\* 20+25+20+25+15+10 = 115) is clamped to 100.
C1_ScoreBounded ==
  Scored =>
    /\ result.score \in 0..100
    /\ (NoHardFilter /\ atLeast(ComponentSum, number(100)) => result.score = 100)

\* The six matchers give their maxima, 115 in all, and the result is 100.
C1_Witness ==
  /\ Scored
  /\ NoHardFilter
  /\ SameNumber(ComponentSum, number(115))
  /\ result.score = 100

----------------------------------------------------------------------------
\* C2: whenever the category classifier returns match=false, the result is
\* score 0, suitable=false, no reasons, and exactly the category issue: no
\* later matcher contributes a score or a reason.
C2_CategoryShortCircuit ==
  Scored /\ CategoryRejects =>
    /\ result.score = 0
    /\ result.suitable = FALSE
    /\ result.reasons = <<>>
    /\ result.issues = <<CategoryNow.issue>>

\* The category is rejected for a job whose location, remote mode, skills and
\* job type would all have matched and produced reasons.
C2_Witness ==
  /\ Scored
  /\ CategoryRejects
  /\ LocationNow.match
  /\ RemoteNow.match
  /\ SkillsNow.reasons # <<>>
  /\ result.reasons = <<>>
  /\ result.score = 0

----------------------------------------------------------------------------
\* C3: when the category check passes and the location matcher returns
\* match=false with an issue, the result is score 0, suitable=false, issues
\* holds that location issue, reasons holds only what was there before the
\* location step (at most the category reason).
C3_LocationShortCircuit ==
  Scored /\ ~CategoryRejects /\ LocationRejects =>
    /\ result.score = 0
    /\ result.suitable = FALSE
    /\ result.issues = <<LocationNow.issue>>
    /\ result.reasons = CategoryReasons

\* The location is rejected after a category reason was recorded, for a job
\* whose skills would have matched.
C3_Witness ==
  /\ Scored
  /\ ~CategoryRejects
  /\ LocationRejects
  /\ CategoryReasons # <<>>
  /\ SkillsNow.reasons # <<>>
  /\ result.reasons = CategoryReasons
  /\ result.score = 0

----------------------------------------------------------------------------
\* C4: in every MatchResult, suitable is true if and only if the returned
\* (rounded, clamped) score is >= 40 and issues is empty.
C4_SuitableIffThreshold ==
  Scored => (result.suitable <=> (result.score >= 40 /\ result.issues = <<>>))

\* A result exactly on the threshold.
C4_Witness ==
  /\ Scored
  /\ result.score = 40
  /\ result.issues = <<>>
  /\ result.suitable

----------------------------------------------------------------------------
\* C5: when neither hard filter fires, the returned score is
\* round(min(100, category + location + remote + skills + experience +
\* jobType)), the skills term possibly fractional, rounded once.
C5_ScoreIsRoundedSum ==
  Scored /\ NoHardFilter => IsRoundedClamped(result.score, ComponentSum)

\* A sum below 100 that ends in one half, rounded up.
C5_Witness ==
  /\ Scored
  /\ NoHardFilter
  /\ ~atLeast(ComponentSum, number(100))
  /\ ComponentSum.num % ComponentSum.den # 0
  /\ (2 * ComponentSum.num) % ComponentSum.den = 0
  /\ result.score * ComponentSum.den > ComponentSum.num

----------------------------------------------------------------------------
\* C6: the classifier resolves the user category as the first group, in the
\* order tech, design, finance, hr, marketing, sales, support, management,
\* with a keyword in the desired position or a user job type, the job
\* category likewise from title, type and category field; it returns 10 /
\* match / no reason if either is undefined, 20 / match if both are the same,
\* 10 / match if the job category is another member of the user category's
\* compatible set, else 0 / no match with an issue.  A user in finance, hr or
\* support is rejected for every job resolved to another category.
ClaimedOrder ==
  << <<"t","e","c","h">>, <<"d","e","s","i","g","n">>, <<"f","i","n","a","n","c","e">>, <<"h","r">>, <<"m","a","r","k","e","t","i","n","g">>, <<"s","a","l","e","s">>, <<"s","u","p","p","o","r","t">>,
     <<"m","a","n","a","g","e","m","e","n","t">> >>

KeywordsOf(category) ==
  categoryGroups[CHOOSE g \in DOMAIN categoryGroups :
                   categoryGroups[g].category = category].keywords

FoundIn(category, texts) ==
  \E k \in DOMAIN KeywordsOf(category) : \E t \in DOMAIN texts :
    includes(texts[t], KeywordsOf(category)[k])

FirstFound(texts) ==
  LET found == {i \in DOMAIN ClaimedOrder : FoundIn(ClaimedOrder[i], texts)}
  IN  IF found = {} THEN null
      ELSE ClaimedOrder[CHOOSE i \in found : \A j \in found : i <= j]

UserTexts ==
  <<toLowerCase(orElse(profile, "desiredPosition", <<>>))>>
    \o mapLower(orElse(profile, "jobTypes", <<>>))

JobTexts ==
  << toLowerCase(posting.title), toLowerCase(posting.type),
     toLowerCase(orElse(posting, "category", <<>>)) >>

CompatibleSet(category) ==
  LET row == CHOOSE i \in DOMAIN compatibleCategories :
               compatibleCategories[i].category = category
  IN  {compatibleCategories[row].compatible[k] :
         k \in DOMAIN compatibleCategories[row].compatible}

C6_CategoryClassifier ==
  call = "calculateJobCategoryMatch" =>
    LET u == FirstFound(UserTexts)
        j == FirstFound(JobTexts)
    IN  /\ userCategoryOf(profile) = u
        /\ jobCategoryOf(posting) = j
        /\ (u = null \/ j = null) =>
             result.score = 10 /\ result.match /\ ~truthy(result, "reason")
        /\ (u # null /\ j # null /\ u = j) =>
             result.score = 20 /\ result.match
        /\ (u # null /\ j # null /\ u # j /\ j \in CompatibleSet(u)) =>
             result.score = 10 /\ result.match
        /\ (u # null /\ j # null /\ u # j /\ j \notin CompatibleSet(u)) =>
             result.score = 0 /\ ~result.match /\ truthy(result, "issue")
        /\ (u \in {<<"f","i","n","a","n","c","e">>, <<"h","r">>, <<"s","u","p","p","o","r","t">>} /\ j # null /\ j # u) =>
             result.score = 0 /\ ~result.match

\* A finance user against a job resolved to tech: rejected.
C6_Witness ==
  /\ call = "calculateJobCategoryMatch"
  /\ FirstFound(UserTexts) = <<"f","i","n","a","n","c","e">>
  /\ FirstFound(JobTexts) = <<"t","e","c","h">>
  /\ ~result.match
  /\ truthy(result, "issue")

----------------------------------------------------------------------------
\* C7: if the remote preference is 'remote', the job is not detected as
\* remote and its location contains none of the preferred locations, the
\* location matcher returns score 0, match=false with an issue, whatever the
\* current location and willingToRelocate; the overall score is then 0.
C7_RemoteOnlyHardFilter ==
  RemoteOnlyRule =>
    /\ call = "calculateLocationMatch" =>
         result.score = 0 /\ ~result.match /\ truthy(result, "issue")
    /\ Scored => result.score = 0 /\ ~result.suitable

\* Rejected although the job is in the user's current city and the user is
\* willing to relocate.
C7_Witness ==
  /\ call = "calculateLocationMatch"
  /\ RemoteOnlyRule
  /\ CurrentContained
  /\ Willing
  /\ result.score = 0
  /\ ~result.match

----------------------------------------------------------------------------
\* C8: if the remote preference is 'onsite' and the job is detected as remote
\* while its location text has no 'hybrid', the location matcher returns
\* score 10, match=false and no issue (so no location hard filter in that
\* call); the aggregator, having reached the location step, does not
\* short-circuit: the 10 points are in the sum and the remote, skills,
\* experience and job-type matchers are evaluated.
C8_OnsiteSoftMismatch ==
  OnsiteSoftRule =>
    /\ call = "calculateLocationMatch" =>
         /\ result.score = 10
         /\ ~result.match
         /\ ~has(result, "issue")
    /\ Scored /\ ~CategoryRejects =>
         /\ result.issues = <<>>
         /\ IsRoundedClamped(result.score,
              plus(number(CategoryNow.score + 10 + RemoteNow.score
                          + ExperienceNow.score + JobTypeNow.score),
                   SkillsNow.score))
         /\ \A i \in DOMAIN SkillsNow.reasons : InReasons(SkillsNow.reasons[i])
         /\ (ExperienceNow.match => InReasons(ExperienceNow.reason))
         /\ (JobTypeNow.match => InReasons(JobTypeNow.reason))

\* An on-site user scored against a remote-only job: a positive score, no
\* issue, and a skills reason in the result.
C8_Witness ==
  /\ Scored
  /\ OnsiteSoftRule
  /\ ~CategoryRejects
  /\ result.score > 0
  /\ result.issues = <<>>
  /\ SkillsNow.reasons # <<>>

----------------------------------------------------------------------------
\* C9: when neither rule 2 nor rule 3 applies, the location matcher returns
\* the result of the first rule that holds: job remote and preference remote,
\* flexible or hybrid -> 25; job location contains a preferred location ->
\* 25; job location contains the current location -> 20; willing to
\* relocate -> 15 (all match=true); otherwise 0, match=false with an issue.
C9_LocationRuleOrder ==
  call = "calculateLocationMatch" /\ ~RemoteOnlyRule /\ ~OnsiteSoftRule =>
    IF isRemoteJob(posting) /\ PreferenceNow \in {<<"r","e","m","o","t","e">>, <<"f","l","e","x","i","b","l","e">>, <<"h","y","b","r","i","d">>}
    THEN result.score = 25 /\ result.match
    ELSE IF SomePreferredContained
    THEN result.score = 25 /\ result.match
    ELSE IF CurrentContained
    THEN result.score = 20 /\ result.match
    ELSE IF Willing
    THEN result.score = 15 /\ result.match
    ELSE result.score = 0 /\ ~result.match /\ truthy(result, "issue")

\* The job is in a preferred location and in the current city: the preferred
\* rule comes first and gives 25.
C9_Witness ==
  /\ call = "calculateLocationMatch"
  /\ ~RemoteOnlyRule
  /\ ~OnsiteSoftRule
  /\ ~isRemoteJob(posting)
  /\ SomePreferredContained
  /\ CurrentContained
  /\ result.score = 25

----------------------------------------------------------------------------
\* C10: the skills score is min(25, matchedCount / totalUserSkillCount * 25),
\* total counting primary plus secondary skills and matched those that occur,
\* case-folded, in the job's title and description; with no skills at all the
\* score is exactly 0 and not NaN; the score is always within [0, 25].
AllSkills ==
  orElse(profile, "primarySkills", <<>>) \o orElse(profile, "secondarySkills", <<>>)

TitleAndDescription ==
  toLowerCase(posting.title) \o <<" ">> \o toLowerCase(orElse(posting, "description", <<>>))

MatchedCount ==
  Cardinality({i \in DOMAIN AllSkills :
                 includes(TitleAndDescription, toLowerCase(AllSkills[i]))})

C10_SkillsScore ==
  call = "calculateSkillsMatch" =>
    /\ result.score.den > 0
    /\ atLeast(result.score, number(0))
    /\ atLeast(number(25), result.score)
    /\ (Len(AllSkills) = 0 => result.score.num = 0)
    /\ (Len(AllSkills) > 0 =>
          SameNumber(result.score, [num |-> MatchedCount * 25, den |-> Len(AllSkills)]))

\* Two of three skills occur in the job text: 50/3 points.
C10_Witness ==
  /\ call = "calculateSkillsMatch"
  /\ Len(AllSkills) = 3
  /\ MatchedCount = 2
  /\ SameNumber(result.score, [num |-> 50, den |-> 3])

----------------------------------------------------------------------------
\* C11: adding one more skill (primary or secondary) that occurs in the
\* job's title or description never decreases the skills-match score:
\* score(profile + skill, job) >= score(profile, job).
AddableSkills == skillNames \cup { <<"r","e","a","c","t">>, <<"J","a","v","a","S","c","r","i","p","t">>, <<"A","n","a","l","y","s","t">> }

OccursInJob(skill) ==
  \/ includes(toLowerCase(posting.title), toLowerCase(skill))
  \/ includes(toLowerCase(orElse(posting, "description", <<>>)), toLowerCase(skill))

\* The profile with one more skill at the end of the named list.
WithSkill(field, skill) ==
  override(profile, {field}, field :> Append(orElse(profile, field, <<>>), skill))

SkillAdditions ==
  { WithSkill(f, s) : f \in {"primarySkills", "secondarySkills"},
                      s \in {s \in AddableSkills : OccursInJob(s)} }

C11_SkillsMonotone ==
  call = "calculateSkillsMatch" =>
    \A extended \in SkillAdditions :
      atLeast(calculateSkillsMatch(extended, posting).score, result.score)

\* One of two skills matched, and a matching secondary skill lifts the score
\* strictly: 1/2 of 25 becomes 2/3 of 25.
C11_Witness ==
  /\ call = "calculateSkillsMatch"
  /\ Len(AllSkills) = 2
  /\ MatchedCount = 1
  /\ \E extended \in SkillAdditions :
       /\ has(extended, "secondarySkills")
       /\ Len(extended.secondarySkills) > Len(orElse(profile, "secondarySkills", <<>>))
       /\ SameNumber(calculateSkillsMatch(extended, posting).score, [num |-> 50, den |-> 3])
       /\ ~atLeast(result.score, calculateSkillsMatch(extended, posting).score)

----------------------------------------------------------------------------
\* C12: the experience matcher uses the table Internship -> {junior},
\* Junior -> {junior, mid}, Mid -> {junior, mid, senior}, Senior -> {mid,
\* senior, lead}, Lead -> {senior, lead}, and {mid, senior} for any
\* unrecognized job level.  It returns 15, match=true when the user's level
\* is in the acceptable set; 5, match=false with a cautionary reason exactly
\* for (senior, Junior) and (junior, Senior); and 10, match=true with an
\* empty reason for every other combination.
UserLevelNow == orElse(profile, "experienceLevel", undefined)

JobLevelNow == orElse(posting, "experienceLevel", undefined)

AcceptableSet(jobLevel) ==
  CASE jobLevel = <<"I","n","t","e","r","n","s","h","i","p">> -> { <<"j","u","n","i","o","r">> }
    [] jobLevel = <<"J","u","n","i","o","r">>     -> { <<"j","u","n","i","o","r">>, <<"m","i","d">> }
    [] jobLevel = <<"M","i","d">>        -> { <<"j","u","n","i","o","r">>, <<"m","i","d">>, <<"s","e","n","i","o","r">> }
    [] jobLevel = <<"S","e","n","i","o","r">>     -> { <<"m","i","d">>, <<"s","e","n","i","o","r">>, <<"l","e","a","d">> }
    [] jobLevel = <<"L","e","a","d">>       -> { <<"s","e","n","i","o","r">>, <<"l","e","a","d">> }
    [] OTHER                    -> { <<"m","i","d">>, <<"s","e","n","i","o","r">> }

Overqualified == UserLevelNow = <<"s","e","n","i","o","r">> /\ JobLevelNow = <<"J","u","n","i","o","r">>

Underqualified == UserLevelNow = <<"j","u","n","i","o","r">> /\ JobLevelNow = <<"S","e","n","i","o","r">>

----------------------------------------------------------------------------
\* C13: the remote-preference matcher returns, by the first rule that holds:
\* preference remote and job remote -> 20, match=true; preference hybrid and
\* job hybrid or remote -> 20, match=true; preference flexible -> 15,
\* match=true regardless of the job; preference onsite and job not remote ->
\* 20, match=true; otherwise 10, match=false.  Its remote test is the one of
\* the location matcher: location contains 'remote' or 'hybrid', explicit
\* remote flag, or description contains 'remote'.
DescriptionContains(s) ==
  has(posting, "description") /\ includes(toLowerCase(posting.description), s)

RemoteDetected ==
  \/ JobLocationContains(<<"r","e","m","o","t","e">>)
  \/ JobLocationContains(<<"h","y","b","r","i","d">>)
  \/ (has(posting, "isRemote") /\ posting.isRemote = TRUE)
  \/ DescriptionContains(<<"r","e","m","o","t","e">>)

HybridDetected == JobLocationContains(<<"h","y","b","r","i","d">>) \/ DescriptionContains(<<"h","y","b","r","i","d">>)

----------------------------------------------------------------------------
\* C14: the job-type matcher returns 10, match=true if any of the user's job
\* types (case-folded) is a substring of the job type or contains it;
\* otherwise 8, match=true if the user's job types include exactly
\* 'full stack' and the job type contains 'frontend' or 'backend'; otherwise
\* 5, match=false.  No other score is ever returned.
UserTypesNow == orElse(profile, "jobTypes", <<>>)

JobTypeLower == toLowerCase(posting.type)

TypeOverlap ==
  \E i \in DOMAIN UserTypesNow :
    \/ includes(JobTypeLower, toLowerCase(UserTypesNow[i]))
    \/ includes(toLowerCase(UserTypesNow[i]), JobTypeLower)

FullStackUser ==
  \E i \in DOMAIN UserTypesNow : toLowerCase(UserTypesNow[i]) = <<"f","u","l","l"," ","s","t","a","c","k">>

----------------------------------------------------------------------------
\* C15: only the category classifier and the location matcher can force a
\* zero result: no outcome of the remote, skills, experience or job-type
\* matcher adds an issue or short-circuits.  A senior user against a Junior
\* job (or a junior user against a Senior job) that passes both hard filters
\* gets experience score 5 and a result with score > 0 and empty issues.
C15_OnlyTwoHardFilters ==
  Scored /\ NoHardFilter =>
    /\ result.issues = <<>>
    /\ result.score > 0
    /\ IsRoundedClamped(result.score, ComponentSum)
    /\ (Overqualified \/ Underqualified => ExperienceNow.score = 5)

\* An overqualified user, every soft matcher at its lowest, still scored.
C15_Witness ==
  /\ Scored
  /\ NoHardFilter
  /\ Overqualified
  /\ ~RemoteNow.match
  /\ ~JobTypeNow.match
  /\ SkillsNow.score.num = 0
  /\ ExperienceNow.score = 5
  /\ result.score > 0
  /\ result.issues = <<>>

----------------------------------------------------------------------------
\* The state holds the result of getMatchedJobs(profile, options) on the store.
Matched == call = "getMatchedJobs"

MinScoreNow == IF has(options, "minScore") THEN options.minScore ELSE 40

MaxResultsNow == IF has(options, "maxResults") THEN options.maxResults ELSE 50

ByScore == ~has(options, "sortBy") \/ options.sortBy = <<"s","c","o","r","e">>

\* The MatchResult of every stored job for the profile.
StoredScores == [k \in DOMAIN jobs |-> calculateJobMatchScore(profile, jobs[k])]

\* The stored jobs that satisfy suitable && matchScore >= minScore.
MatchingBy(scores) ==
  {k \in DOMAIN jobs : scores[k].suitable /\ scores[k].score >= MinScoreNow}

Matching == MatchingBy(StoredScores)

Returned == {jobs[k].id : k \in DOMAIN jobs} \cap {result.jobs[i].id : i \in DOMAIN result.jobs}

Time(iso) == dateGetTime(iso)

\* The sort key of a is strictly larger than the one of b.
LargerKey(a, b) ==
  IF ByScore THEN a.score > b.score
  ELSE \/ Time(a.postedDate).days > Time(b.postedDate).days
       \/ /\ Time(a.postedDate).days = Time(b.postedDate).days
          /\ Time(a.postedDate).ms > Time(b.postedDate).ms

KeyOfReturned(i) ==
  [score |-> result.jobs[i].matchScore, postedDate |-> result.jobs[i].postedDate]

KeyOfStored(scores, k) ==
  [score |-> scores[k].score, postedDate |-> jobs[k].postedDate]

Smaller(a, b) == IF a < b THEN a ELSE b

\* C16: getMatchedJobs returns exactly the first maxResults elements of the
\* list obtained by scoring every stored job, keeping those with
\* suitable=true and matchScore >= minScore, and sorting them by matchScore
\* descending (by postedDate descending when sortBy is not 'score'): every
\* returned job satisfies the filter, the list has at most maxResults
\* entries, it is in non-increasing order of the sort key, and no omitted
\* job that satisfies the filter has a strictly larger sort key than a
\* returned job.  Defaults: minScore 40, maxResults 50, sortBy 'score'.
C16_MatchedJobs ==
  Matched =>
    \A scores \in {StoredScores} : \A matching \in {MatchingBy(scores)} :
      /\ \A i \in DOMAIN result.jobs :
           \E k \in matching :
             /\ jobs[k].id = result.jobs[i].id
             /\ result.jobs[i].matchScore = scores[k].score
             /\ result.jobs[i].suitable
             /\ result.jobs[i].matchScore >= MinScoreNow
      /\ \A i, j \in DOMAIN result.jobs : result.jobs[i].id = result.jobs[j].id => i = j
      /\ Len(result.jobs) = Smaller(MaxResultsNow, Cardinality(matching))
      /\ \A i, j \in DOMAIN result.jobs :
           i < j => ~LargerKey(KeyOfReturned(j), KeyOfReturned(i))
      /\ \A k \in matching :
           jobs[k].id \notin Returned =>
             \A i \in DOMAIN result.jobs : ~LargerKey(KeyOfStored(scores, k), KeyOfReturned(i))

\* Three stored jobs match, two are asked for by score: the two best come
\* back, best first, though the store holds the third one first.
C16_Witness ==
  /\ Matched
  /\ Cardinality(Matching) = 3
  /\ has(options, "maxResults") /\ options.maxResults = 2
  /\ ~has(options, "sortBy")
  /\ jobs[1].id = designJob.id
  /\ Len(result.jobs) = 2
  /\ result.jobs[1].id = frontendJob.id /\ result.jobs[1].matchScore = 100
  /\ result.jobs[2].id = remoteJob.id /\ result.jobs[2].matchScore < 100

----------------------------------------------------------------------------
\* C17: getMatchedJobs reports totalJobs as the number of jobs evaluated,
\* totalMatches as the number of jobs that satisfy suitable && matchScore >=
\* minScore, and matchRate as totalMatches / totalJobs rounded to a whole
\* percentage; the counts reflect every matching job and do not depend on
\* the maxResults truncation.
C17_CountsEveryMatch ==
  Matched =>
    \A matches \in {Cardinality(Matching)} :
      /\ result.totalJobs = Len(jobs)
      /\ result.totalMatches = matches
      /\ Len(jobs) > 0 =>
           /\ result.matchRate.den = 1
           /\ IsRounded(result.matchRate.num, [num |-> matches * 100, den |-> Len(jobs)])

----------------------------------------------------------------------------
\* C18: calculateJobMatchScore is deterministic: two evaluations with equal
\* profile and equal job return equal score, reasons, issues and suitable,
\* whatever calls (on other profiles or jobs, or changes to the job store)
\* happen in between.
SameAsRemembered ==
  /\ memo # <<>>
  /\ memo.profile = profile
  /\ memo.job = posting

----------------------------------------------------------------------------
\* C19: neither calculateJobMatchScore nor getMatchedJobs changes its inputs
\* or the job store: after any call the profile, every job record and the
\* stored job collection (its members and their fields) are identical to
\* what they were before; the batch result consists of annotated copies of
\* the jobs.
MatchFields == {"matchScore", "matchReasons", "matchIssues", "suitable"}

IsAnnotatedCopy(copy, job) ==
  /\ DOMAIN copy = DOMAIN job \cup MatchFields
  /\ \A f \in DOMAIN job : copy[f] = job[f]

AnnotatedCopies ==
  \A i \in DOMAIN result.jobs : \E k \in DOMAIN jobs : IsAnnotatedCopy(result.jobs[i], jobs[k])

C19_Frame ==
  [][ call' \in {"calculateJobMatchScore", "getMatchedJobs"} =>
        /\ profile' = profile
        /\ posting' = posting
        /\ jobs' = jobs
        /\ seenUrls' = seenUrls
        /\ (call' = "getMatchedJobs" => AnnotatedCopies') ]_vars

\* A batch result with jobs in it, and a store whose jobs carry no match.
C19_Witness ==
  /\ Matched
  /\ Len(result.jobs) > 1
  /\ AnnotatedCopies
  /\ \A k \in DOMAIN jobs : DOMAIN jobs[k] \cap MatchFields = {}
  /\ seenUrls = {jobs[k].url : k \in DOMAIN jobs}

----------------------------------------------------------------------------
\* C20: in every MatchResult, issues is non-empty if and only if a hard
\* filter (category or location) fired, and then score is 0 and suitable is
\* false; soft penalties (onsite soft mismatch, over/under-qualification,
\* job-type mismatch) never add to issues.  A zero score with non-empty
\* issues always means a hard-filter rejection.
SoftPenalty ==
  \/ (~LocationNow.match /\ ~truthy(LocationNow, "issue"))
  \/ ~ExperienceNow.match
  \/ ~JobTypeNow.match

C20_IssuesIffHardFilter ==
  Scored =>
    /\ result.issues # <<>> <=> (CategoryRejects \/ LocationRejects)
    /\ result.issues # <<>> => result.score = 0 /\ ~result.suitable
    /\ CategoryRejects => result.issues = <<CategoryNow.issue>>
    /\ ~CategoryRejects /\ LocationRejects => result.issues = <<LocationNow.issue>>
    /\ NoHardFilter /\ SoftPenalty => result.issues = <<>> /\ result.score > 0

\* A location rejection of an overqualified user: one issue, the location's.
C20_Witness ==
  /\ Scored
  /\ ~CategoryRejects
  /\ LocationRejects
  /\ ~ExperienceNow.match
  /\ result.issues = <<LocationNow.issue>>
  /\ result.score = 0
  /\ ~result.suitable

(***************************************************************************)
(* C21: absent optional data                                               *)
(***************************************************************************)

IsMatchResult(r) ==
  /\ DOMAIN r = {"score", "reasons", "issues", "suitable"}
  /\ r.score \in 0..100
  /\ r.suitable \in BOOLEAN
  /\ DOMAIN r.reasons = 1..Len(r.reasons)
  /\ DOMAIN r.issues = 1..Len(r.issues)

Collections == {"jobTypes", "preferredLocations", "primarySkills", "secondarySkills"}

\* The profile with every missing collection present and empty.
WithEmptyCollections(p) ==
  [f \in DOMAIN p \cup Collections |-> IF f \in DOMAIN p THEN p[f] ELSE <<>>]

\* C21: for a job with title, type and location, whatever else the job and
\* the profile lack, calculateJobMatchScore ends without a TypeError and
\* returns a MatchResult, the one it returns for the same profile with its
\* missing collections present and empty.
C21_NeverThrows ==
  (Scored /\ {"title", "type", "location"} \subseteq DOMAIN posting)
    => /\ result # TypeError
       /\ IsMatchResult(result)
       /\ result = calculateJobMatchScore(WithEmptyCollections(profile), posting)

\* An empty profile and a job of title, type and location only, scored.
C21_Witness ==
  /\ Scored
  /\ DOMAIN profile = {}
  /\ DOMAIN posting = {"title", "type", "location"}
  /\ result # TypeError
  /\ IsMatchResult(result)

(***************************************************************************)
(* C22: letter case                                                        *)
(***************************************************************************)

StringFields ==
  {"desiredPosition", "currentLocation", "remotePreference", "experienceLevel",
   "title", "type", "category", "location", "description"}

ListFields == {"jobTypes", "preferredLocations", "primarySkills", "secondarySkills"}

\* The object with every string, and every string of its lists, in lower case.
LowerCased(obj) ==
  [f \in DOMAIN obj |->
     IF f \in StringFields THEN toLowerCase(obj[f])
     ELSE IF f \in ListFields THEN [i \in DOMAIN obj[f] |-> toLowerCase(obj[f][i])]
     ELSE obj[f]]

\* C22: changing only the letter case of the strings of the profile and of
\* the job (here: to lower case) changes neither the score nor suitable nor
\* whether a hard filter fires.
C22_CaseInsensitive ==
  Scored =>
    \A other \in {calculateJobMatchScore(LowerCased(profile), LowerCased(posting))} :
      /\ other.score = result.score
      /\ other.suitable = result.suitable
      /\ (other.issues = <<>>) = (result.issues = <<>>)

(***************************************************************************)
(* C23 - C26: the reasons and the score of the aggregator                  *)
(***************************************************************************)

\* The reason a matcher returned, when it returned a non-empty one.
NonEmptyReason(m) == IF truthy(m, "reason") THEN {m.reason} ELSE {}

\* C23: when no hard filter fires, every non-empty reason the location,
\* remote, experience and job-type matchers return (the on-site soft
\* mismatch and the over-/under-qualification caution among them) and every
\* skills reason is in the result's reasons.
C23_ReasonsAccumulated ==
  (Scored /\ NoHardFilter) =>
    /\ \A r \in NonEmptyReason(LocationNow) \cup NonEmptyReason(RemoteNow)
                \cup NonEmptyReason(ExperienceNow) \cup NonEmptyReason(JobTypeNow) :
         InReasons(r)
    /\ \A i \in DOMAIN SkillsNow.reasons : InReasons(SkillsNow.reasons[i])

\* What the aggregator pushes for a matcher: its reason when it matched.
PushedBy(m) == IF m.match THEN <<orElse(m, "reason", undefined)>> ELSE <<>>

PrimaryFmt == "${} of your primary skills match: ${}"

AdditionalFmt == "${} additional skills match"

\* Position of the reason of the given text in the reasons, 0 if absent.
PositionOf(fmt) ==
  IF \E i \in DOMAIN result.reasons : result.reasons[i].fmt = fmt
  THEN CHOOSE i \in DOMAIN result.reasons : result.reasons[i].fmt = fmt
  ELSE 0

\* C24: the reasons are those of category, location, remote, skills,
\* experience and job type, in this order; a location hard filter leaves
\* the reasons pushed before it; of the skills reasons the primary-skills
\* one precedes the additional-skills one.
C24_ReasonOrder ==
  /\ (Scored /\ NoHardFilter) =>
       /\ result.reasons = CategoryReasons \o PushedBy(LocationNow) \o PushedBy(RemoteNow)
                             \o SkillsNow.reasons \o PushedBy(ExperienceNow)
                             \o PushedBy(JobTypeNow)
       /\ (PositionOf(PrimaryFmt) > 0 /\ PositionOf(AdditionalFmt) > 0)
            => PositionOf(AdditionalFmt) = PositionOf(PrimaryFmt) + 1
  /\ (Scored /\ ~CategoryRejects /\ LocationRejects) => result.reasons = CategoryReasons

\* Every matcher contributes a reason, the skills matcher both of its.
C24_Witness ==
  /\ Scored
  /\ NoHardFilter
  /\ CategoryReasons # <<>>
  /\ LocationNow.match /\ RemoteNow.match /\ ExperienceNow.match /\ JobTypeNow.match
  /\ Len(SkillsNow.reasons) = 2
  /\ Len(result.reasons) = 7
  /\ result.reasons[4].fmt = PrimaryFmt
  /\ result.reasons[5].fmt = AdditionalFmt

\* C25: when neither hard filter fires the component sum is at least 40 and
\* suitable is true; suitable is false only when a hard filter fired; no
\* score lies strictly between 0 and 40; a score of 0 comes with an issue.
C25_ScoreFloor ==
  Scored =>
    /\ NoHardFilter => (atLeast(ComponentSum, number(40)) /\ result.suitable)
    /\ ~result.suitable => (CategoryRejects \/ LocationRejects)
    /\ result.score \notin 1..39
    /\ ~(result.score = 0 /\ result.issues = <<>>)

\* The minimum: 10 + 10 + 10 + 0 + 5 + 5.
C25_Witness ==
  /\ Scored
  /\ NoHardFilter
  /\ CategoryNow.score = 10 /\ LocationNow.score = 10 /\ RemoteNow.score = 10
  /\ SkillsNow.score.num = 0
  /\ ExperienceNow.score = 5 /\ JobTypeNow.score = 5
  /\ result.score = 40
  /\ result.suitable

\* C26: every entry of the reasons is a string with a non-empty text: ''
\* is never appended.
C26_ReasonsNonEmpty ==
  Scored => \A i \in DOMAIN result.reasons : result.reasons[i].fmt # ""

(***************************************************************************)
(* C27, C28: the store                                                     *)
(***************************************************************************)

\* C27: whatever the store holds, the empty store included, getMatchedJobs
\* returns a matchRate that is a whole number from 0 to 100; on a store
\* without jobs it returns no jobs, totalMatches 0 and totalJobs 0.
C27_MatchRateWhole ==
  Matched =>
    /\ result.matchRate.den = 1
    /\ result.matchRate.num \in 0..100
    /\ jobs = <<>> =>
         (result.jobs = <<>> /\ result.totalMatches = 0 /\ result.totalJobs = 0)

\* No stored job has the url or the title and company of the job.
Fresh(job, store) ==
  \A i \in DOMAIN store :
    store[i].url # job.url /\ jobKey(store[i]) # jobKey(job)

NoDuplicates(store) ==
  \A i, k \in DOMAIN store :
    i # k => (store[i].url # store[k].url /\ jobKey(store[i]) # jobKey(store[k]))

StoredIn(job, store) == \E i \in DOMAIN store : store[i] = job

Threw(r) == "threw" \in DOMAIN r

\* The live sessions (issued by a successful signUp or signIn and not
\* signed out since) are exactly the sessions that verify, each with the
\* user it was issued to.
LiveSessionsVerify ==
  \A s \in sessionIdsGiven :
    /\ verifySession(s) = (s \in DOMAIN memo)
    /\ s \in DOMAIN memo =>
         /\ memo[s] \in DOMAIN usersById
         /\ getCurrentUser(s) = userOf(usersById[memo[s]])
         /\ getCurrentUser(s).id = memo[s]
         /\ users[getCurrentUser(s).email] = memo[s]

\* C29: verifySession(s) is true, and getCurrentUser(s) returns the owner,
\* exactly for the sessions issued by a successful signUp or signIn and not
\* signed out since; signUp fails exactly on an invalid email, a short
\* password or an existing email, signIn exactly on an unknown email or a
\* wrong password, and a failed call creates no session and changes no
\* user; a successful one issues a new session of the user; signOut of one
\* session leaves every other session as it was.
C29_Sessions ==
  [][ /\ LiveSessionsVerify'
      /\ call' = "verifySession" => result' = (options'.sessionId \in DOMAIN memo')
      /\ call' = "getCurrentUser" =>
           IF options'.sessionId \in DOMAIN memo'
           THEN result'.id = memo'[options'.sessionId]
           ELSE result' = null
      /\ call' = "signUp" =>
           /\ Threw(result') = \/ invalidEmail(options'.email)
                               \/ invalidPassword(options'.password)
                               \/ options'.email \in DOMAIN users
           /\ ~Threw(result') => users'[options'.email] = result'.user.id
      /\ call' = "signIn" =>
           /\ Threw(result') = \/ options'.email \notin DOMAIN users
                               \/ usersById[users[options'.email]].password
                                    # options'.password
           /\ ~Threw(result') => users[options'.email] = result'.user.id
      /\ call' \in {"signUp", "signIn"} =>
           IF Threw(result')
           THEN UNCHANGED <<users, usersById, sessions>>
           ELSE /\ result'.sessionId \notin DOMAIN sessions
                /\ sessions' = mapPut(sessions, result'.sessionId, result'.user.id)
      /\ call' = "signOut" =>
           \A s \in DOMAIN sessions \ {options'.sessionId} :
             s \in DOMAIN sessions' /\ sessions'[s] = sessions[s]
    ]_vars

\* Two sessions of one user were issued and the first was signed out: it no
\* longer verifies, the second still does.
C29_Witness ==
  /\ call = "signOut"
  /\ clock = 2
  /\ options.sessionId = sessionIdAt(0)
  /\ ~verifySession(sessionIdAt(0))
  /\ verifySession(sessionIdAt(1))
  /\ getCurrentUser(sessionIdAt(0)) = null
  /\ getCurrentUser(sessionIdAt(1)).email = <<"a","n","n","@","c","v",".","s","k">>
  /\ Cardinality(DOMAIN usersById) = 1

(***************************************************************************)
(* C30: the refresh of the store and the matching requests                 *)
(***************************************************************************)

SomeScrapeAwaits == \E c \in scrapeCallers : scrapes[c].pc # 0

\* C30: a getMatchedJobs call, whenever it runs between the steps of the
\* scrapes, sees a complete collection: the store as the last refresh (or
\* the start of the server) left it, never the store emptied or partly
\* refilled by a refresh under way.
C30_RefreshAtomic ==
  Matched =>
    /\ ~memo.midRefresh
    /\ jobs = memo.published
    /\ jobs # <<>>
    /\ result.totalJobs = Len(memo.published)

\* A request matched while both scrapes were awaiting the network, one of
\* them with jobs collected, after an earlier refresh replaced the
\* collection of the start.
C30_Witness ==
  /\ Matched
  /\ \A c \in scrapeCallers : scrapes[c].pc # 0
  /\ \E c \in scrapeCallers : scrapes[c].allJobs # <<>>
  /\ memo.published # addJobs(<<>>, {}, mockJobs).jobs
  /\ result.totalJobs = Len(jobs)
  /\ result.totalJobs > 0

====
